---------------------------- MODULE Spec2Model ----------------------------
(***************************************************************************)
(* Paragon board extraction and projection: the two parsers                *)
(* (MaxrollParser, ParagonParser) and TableGenerator, as state machines    *)
(* over the plain data they read and produce.                              *)
(*                                                                         *)
(* Strings the code builds and takes apart again (grid keys "row,col",     *)
(* board names) are sequences of one-character strings, so formatting and  *)
(* parsing are computed, not assumed.  A missing object is Null; a missing *)
(* string is "null".                                                       *)
(***************************************************************************)
EXTENDS Integers, Sequences, FiniteSets, TLC

VARIABLES
  pjBoard,    \* projector: the board handed to generateTable
  pjPc,       \* projector: "nodes" | "board" | "cell" | "table" | "reprojected"
  pjCell,     \* projector: display cell last given to transformCoordinates
  pjSource,   \* projector: what transformCoordinates returned for pjCell
  pjArg,      \* projector: the rotation argument of that call
  pjTable1,   \* projector: table generated from pjBoard
  pjTable2,   \* projector: table generated from pjTable1's cells, rotated back
  site,       \* pipeline: "mobalytics" | "maxroll" (D4Accessibility.site)
  dom,        \* pipeline: the board elements of the page, in document order
  boards,     \* pipeline: the list parseAllBoards returned
  pc,         \* pipeline: "idle" | "page" | "parsed" | "connected" | "returned"
  edIn,       \* edges: the call last made to a rotation-inference function
  edOut,      \* edges: what that call returned
  psIn,       \* positions: the call last made to a position function
  psOut,      \* positions: what that call returned
  processing, \* content script: D4Accessibility.processing
  processed,  \* content script: D4Accessibility.processed
  accessible, \* content script: the accessible containers inserted in the page
  hidden,     \* content script: the elements that carry aria-hidden="true"
  attempts,   \* content script: the counter of waitForBoards
  polling,    \* content script: a call of checkForBoards is due
  scheduled,  \* content script: the timers set to call processBoards
  host,       \* page: a widget container holds the boards; their inline display
  display,    \* content script: the style.display it wrote, by element
  originalBoards, \* content script: D4Accessibility.originalBoards
  nav,        \* content script: the links addNavigationLandmarks inserted
  made        \* content script: the boards boards.forEach has passed

pjVars == <<pjBoard, pjPc, pjCell, pjSource, pjArg, pjTable1, pjTable2>>
ppVars == <<site, dom, boards, pc>>
edVars == <<edIn, edOut>>
psVars == <<psIn, psOut>>
daVars == <<processing, processed, accessible, hidden>>
scVars == <<attempts, polling, scheduled, host, display, originalBoards, nav, made>>
vars == <<pjVars, ppVars, edVars, psVars, daVars, scVars>>

Null == [null |-> TRUE]
\* a property that was never assigned
Undefined == [undefined |-> TRUE]

(***************************************************************************)
(* Bounds of the model.                                                    *)
(***************************************************************************)
\* grid coordinates of the projector's boards range over -1..MaxCoord
MaxCoord == 1
\* nodes on one projector board
MaxGridNodes == 2
\* board wrappers on a page of the connection specification
MaxBoardsB == 3
MaxNodesA == 3
MaxBoardsA == 2
MaxLayerNodes == 2
MaxMarkedNodes == 2
\* board elements on a page of the processing specification
MaxPageBoards == 2

(***************************************************************************)
(* JavaScript arithmetic and string conversions.                           *)
(***************************************************************************)
Abs(n) == IF n < 0 THEN -n ELSE n

\* a % b of JavaScript: the result takes the sign of a
JsRem(a, b) == IF a < 0 THEN -((-a) % b) ELSE a % b

SetMin(S) == CHOOSE m \in S : \A x \in S : m <= x
SetMax(S) == CHOOSE m \in S : \A x \in S : m >= x

DigitChars == <<"0", "1", "2", "3", "4", "5", "6", "7", "8", "9">>

RECURSIVE NatToStr(_)
NatToStr(n) ==
  IF n < 10 THEN <<DigitChars[n + 1]>>
  ELSE NatToStr(n \div 10) \o <<DigitChars[(n % 10) + 1]>>

\* `${n}` for an integer n
NumToStr(n) == IF n < 0 THEN <<"-">> \o NatToStr(-n) ELSE NatToStr(n)

DigitValue(c) == (CHOOSE i \in 1..10 : DigitChars[i] = c) - 1

RECURSIVE StrToNat(_)
StrToNat(s) ==
  IF Len(s) = 0 THEN 0
  ELSE 10 * StrToNat(SubSeq(s, 1, Len(s) - 1)) + DigitValue(s[Len(s)])

\* Number(s) for the decimal text of an integer
StrToNum(s) ==
  IF Len(s) > 0 /\ s[1] = "-" THEN -StrToNat(Tail(s)) ELSE StrToNat(s)

\* s.split(',')
RECURSIVE SplitComma(_)
SplitComma(s) ==
  IF \A i \in 1..Len(s) : s[i] # ","
  THEN <<s>>
  ELSE LET i == CHOOSE j \in 1..Len(s) :
                  s[j] = "," /\ \A k \in 1..(j - 1) : s[k] # ","
       IN <<SubSeq(s, 1, i - 1)>> \o SplitComma(SubSeq(s, i + 1, Len(s)))

\* `${row},${col}`
GridKey(row, col) == NumToStr(row) \o <<",">> \o NumToStr(col)

\* const [row, col] = key.split(',').map(Number)
KeyPosition(key) ==
  LET parts == SplitComma(key)
  IN [row |-> StrToNum(parts[1]), col |-> StrToNum(parts[2])]

(***************************************************************************)
(* Grid assembly, shared by both parsers (the two copies are identical).   *)
(***************************************************************************)
NodeKey(node) == GridKey(node.gridPosition.row, node.gridPosition.col)

buildGrid_keepFirst(nodes) ==
  LET keys == {NodeKey(nodes[i]) : i \in 1..Len(nodes)}
      first(k) == SetMin({i \in 1..Len(nodes) : NodeKey(nodes[i]) = k})
  IN [k \in keys |-> nodes[first(k)]]

\* grid[key] = node for each node in order: a later node overwrites
buildGrid(nodes) ==
  LET keys == {NodeKey(nodes[i]) : i \in 1..Len(nodes)}
      last(k) == SetMax({i \in 1..Len(nodes) : NodeKey(nodes[i]) = k})
  IN [k \in keys |-> nodes[last(k)]]

ZeroDimensions ==
  [minRow |-> 0, maxRow |-> 0, minCol |-> 0, maxCol |-> 0, rows |-> 0, cols |-> 0]

getGridDimensions(grid) ==
  LET positions == {KeyPosition(k) : k \in DOMAIN grid}
      rowsOf == {p.row : p \in positions}
      colsOf == {p.col : p \in positions}
  IN IF positions = {} THEN ZeroDimensions
     ELSE [minRow |-> SetMin(rowsOf), maxRow |-> SetMax(rowsOf),
           minCol |-> SetMin(colsOf), maxCol |-> SetMax(colsOf),
           rows |-> SetMax(rowsOf) - SetMin(rowsOf) + 1,
           cols |-> SetMax(colsOf) - SetMin(colsOf) + 1]

\* MaxrollParser's copies
Maxroll_buildGrid(nodes) ==
  LET keys == {NodeKey(nodes[i]) : i \in 1..Len(nodes)}
      last(k) == SetMax({i \in 1..Len(nodes) : NodeKey(nodes[i]) = k})
  IN [k \in keys |-> nodes[last(k)]]

Maxroll_getGridDimensions_rowsOnly(grid) ==
  LET positions == {KeyPosition(k) : k \in DOMAIN grid}
      rowsOf == {p.row : p \in positions}
  IN IF positions = {} THEN ZeroDimensions
     ELSE [minRow |-> SetMin(rowsOf), maxRow |-> SetMax(rowsOf),
           minCol |-> SetMin(rowsOf), maxCol |-> SetMax(rowsOf),
           rows |-> SetMax(rowsOf) - SetMin(rowsOf) + 1,
           cols |-> SetMax(rowsOf) - SetMin(rowsOf) + 1]

Maxroll_getGridDimensions(grid) ==
  LET positions == {KeyPosition(k) : k \in DOMAIN grid}
      rowsOf == {p.row : p \in positions}
      colsOf == {p.col : p \in positions}
  IN IF positions = {} THEN ZeroDimensions
     ELSE [minRow |-> SetMin(rowsOf), maxRow |-> SetMax(rowsOf),
           minCol |-> SetMin(colsOf), maxCol |-> SetMax(colsOf),
           rows |-> SetMax(rowsOf) - SetMin(rowsOf) + 1,
           cols |-> SetMax(colsOf) - SetMin(colsOf) + 1]

\* grid[`${row},${col}`] || null
getNodeAt(grid, row, col) ==
  IF GridKey(row, col) \in DOMAIN grid THEN grid[GridKey(row, col)] ELSE Null

(***************************************************************************)
(* TableGenerator.                                                         *)
(***************************************************************************)
transformCoordinates_swapped(displayRow, displayCol, minRow, maxRow, minCol, maxCol, rotation) ==
  CASE rotation = 90  -> [row |-> minRow + displayCol, col |-> maxCol - displayRow]
    [] rotation = 180 -> [row |-> maxRow - displayRow, col |-> maxCol - displayCol]
    [] rotation = 270 -> [row |-> maxRow - displayCol, col |-> minCol + displayRow]
    [] OTHER          -> [row |-> minRow + displayRow, col |-> minCol + displayCol]

transformCoordinates(displayRow, displayCol, minRow, maxRow, minCol, maxCol, rotation) ==
  CASE rotation = 90  -> [row |-> maxRow - displayCol, col |-> minCol + displayRow]
    [] rotation = 180 -> [row |-> maxRow - displayRow, col |-> maxCol - displayCol]
    [] rotation = 270 -> [row |-> minRow + displayCol, col |-> maxCol - displayRow]
    [] OTHER          -> [row |-> minRow + displayRow, col |-> minCol + displayCol]

\* ((rotation % 360) + 360) % 360
normalizeRotation(rotation) == JsRem(JsRem(rotation, 360) + 360, 360)

isRotated90or270(board) ==
  normalizeRotation(board.rotation) \in {90, 270}

displayRows_noswap(board) ==
  board.dimensions.maxRow - board.dimensions.minRow + 1

displayRows(board) ==
  IF isRotated90or270(board)
  THEN board.dimensions.maxCol - board.dimensions.minCol + 1
  ELSE board.dimensions.maxRow - board.dimensions.minRow + 1

displayCols_noswap(board) ==
  board.dimensions.maxCol - board.dimensions.minCol + 1

displayCols(board) ==
  IF isRotated90or270(board)
  THEN board.dimensions.maxRow - board.dimensions.minRow + 1
  ELSE board.dimensions.maxCol - board.dimensions.minCol + 1

\* the cells of the row-major scan
displayCells(board) ==
  (0..(displayRows(board) - 1)) \X (0..(displayCols(board) - 1))

\* the source position the scan looks up for one display cell
sourceOf(board, cell) ==
  transformCoordinates(cell[1], cell[2],
                       board.dimensions.minRow, board.dimensions.maxRow,
                       board.dimensions.minCol, board.dimensions.maxCol,
                       normalizeRotation(board.rotation))

\* the table body: the node (or Null) each display cell shows
generateTable(board) ==
  [cell \in displayCells(board) |->
     LET s == sourceOf(board, cell) IN getNodeAt(board.grid, s.row, s.col)]

\* no timer is set, and the page is as its host rendered it: no widget
\* container around the boards, no inline display on them
ScriptIdle ==
  /\ attempts = 0
  /\ polling = FALSE
  /\ scheduled = 0
  /\ host = [widget |-> FALSE, display |-> ""]
  /\ display = <<>>
  /\ originalBoards = <<>>
  /\ nav = Null
  /\ made = 0

\* the variables of the parsing pipeline, where a specification leaves them unused
PipelineIdle ==
  /\ site = "mobalytics"
  /\ dom = <<>>
  /\ boards = <<>>
  /\ pc = "idle"
  /\ processing = FALSE
  /\ processed = FALSE
  /\ accessible = <<>>
  /\ hidden = {}
  /\ ScriptIdle

\* processBoards has set its flag and is about to call the parser
ProcessStarted ==
  /\ pc = "page"
  /\ processing = TRUE
  /\ processed = FALSE
  /\ accessible = <<>>
  /\ hidden = {}
  /\ ScriptIdle

EdgesIdle ==
  /\ edIn = Null
  /\ edOut = Null

PositionIdle ==
  /\ psIn = Null
  /\ psOut = Null

(***************************************************************************)
(* Projector specification: the nodes and rotation of a board are drawn    *)
(* and its grid and Dimensions built by either parser; then either one     *)
(* display cell is transformed, or the table is generated and the          *)
(* generated table is read back as a board and generated again at the      *)
(* opposite rotation.                                                      *)
(***************************************************************************)
Coords == (-1)..MaxCoord
GridPositions == [row : Coords, col : Coords]
BoardRotations == {0, 90, 180, 270, -90, 45}

\* the sequences of at most n elements of S
RECURSIVE SeqsUpTo(_, _)
SeqsUpTo(S, n) ==
  IF n = 0 THEN {<<>>}
  ELSE LET shorter == SeqsUpTo(S, n - 1)
       IN shorter \cup {Append(s, x) : s \in {t \in shorter : Len(t) = n - 1}, x \in S}

plainNode(p) ==
  [gridPosition |-> p, type |-> "normal", isGate |-> FALSE, isSelected |-> FALSE]

\* parseBoard's grid and dimensions (the same two statements in both parsers)
projectorBoard(nodes, rotation, parser) ==
  LET grid == IF parser = "maxroll" THEN Maxroll_buildGrid(nodes) ELSE buildGrid(nodes)
  IN [index |-> 1, rotation |-> rotation, nodes |-> nodes, parser |-> parser,
      grid |-> grid,
      dimensions |-> IF parser = "maxroll" THEN Maxroll_getGridDimensions(grid)
                     ELSE getGridDimensions(grid)]

\* the generated table read as a board: its non-empty cells are the nodes,
\* keyed by display row and column
tableAsBoard(table, rotation) ==
  LET grid == [k \in {GridKey(c[1], c[2]) : c \in {d \in DOMAIN table : table[d] # Null}} |->
                 LET p == KeyPosition(k) IN table[<<p.row, p.col>>]]
  IN [index |-> 1, rotation |-> rotation, nodes |-> <<>>, parser |-> "table",
      grid |-> grid, dimensions |-> getGridDimensions(grid)]

InitProjector ==
  /\ \E ps \in SeqsUpTo(GridPositions, MaxGridNodes) :
       \E r \in BoardRotations, parser \in {"maxroll", "mobalytics"} :
         pjBoard = [nodes |-> [i \in 1..Len(ps) |-> plainNode(ps[i])],
                    rotation |-> r, parser |-> parser]
  /\ pjPc = "nodes"
  /\ pjCell = Null
  /\ pjSource = Null
  /\ pjArg = 0
  /\ pjTable1 = Null
  /\ pjTable2 = Null
  /\ PipelineIdle
  /\ EdgesIdle
  /\ PositionIdle

BuildGrid ==
  /\ pjPc = "nodes"
  /\ pjBoard' = projectorBoard(pjBoard.nodes, pjBoard.rotation, pjBoard.parser)
  /\ pjPc' = "board"
  /\ UNCHANGED <<pjCell, pjSource, pjArg, pjTable1, pjTable2, ppVars, edVars, psVars, daVars, scVars>>

\* generateTable's loop body for one cell (lines 39-43)
TransformCell ==
  /\ pjPc = "board"
  /\ \E cell \in displayCells(pjBoard) :
       /\ pjCell' = [displayRow |-> cell[1], displayCol |-> cell[2]]
       /\ pjSource' = sourceOf(pjBoard, cell)
  /\ pjArg' = normalizeRotation(pjBoard.rotation)
  /\ pjPc' = "cell"
  /\ UNCHANGED <<pjBoard, pjTable1, pjTable2, ppVars, edVars, psVars, daVars, scVars>>

GenerateTable ==
  /\ pjPc = "board"
  /\ pjTable1' = generateTable(pjBoard)
  /\ pjPc' = "table"
  /\ UNCHANGED <<pjBoard, pjCell, pjSource, pjArg, pjTable2, ppVars, edVars, psVars, daVars, scVars>>

\* the table of pjTable1 at rotation (360 - R) % 360
Reproject ==
  /\ pjPc = "table"
  /\ pjTable2' = generateTable(
        tableAsBoard(pjTable1, JsRem(360 - normalizeRotation(pjBoard.rotation), 360)))
  /\ pjPc' = "reprojected"
  /\ UNCHANGED <<pjBoard, pjCell, pjSource, pjArg, pjTable1, ppVars, edVars, psVars, daVars, scVars>>

NextProjector == BuildGrid \/ TransformCell \/ GenerateTable \/ Reproject

SpecProjector == InitProjector /\ [][NextProjector]_vars

(***************************************************************************)
(* Claim C1.  For each of the rotations 0, 90, 180, 270 handed to          *)
(* transformCoordinates with the board's Dimensions and a display cell,    *)
(* the result is: 0: (minRow+displayRow, minCol+displayCol); 90:           *)
(* (maxRow-displayCol, minCol+displayRow); 180: (maxRow-displayRow,        *)
(* maxCol-displayCol); 270: (minRow+displayCol, maxCol-displayRow).        *)
(***************************************************************************)
C1_TransformFormulas ==
  (pjCell # Null /\ pjArg \in {0, 90, 180, 270}) =>
    LET d == pjBoard.dimensions
        r == pjCell.displayRow
        c == pjCell.displayCol
    IN /\ pjArg = 0   => (pjSource.row = d.minRow + r /\ pjSource.col = d.minCol + c)
       /\ pjArg = 90  => (pjSource.row = d.maxRow - c /\ pjSource.col = d.minCol + r)
       /\ pjArg = 180 => (pjSource.row = d.maxRow - r /\ pjSource.col = d.maxCol - c)
       /\ pjArg = 270 => (pjSource.row = d.minRow + c /\ pjSource.col = d.maxCol - r)

\* a 90-degree call on an off-diagonal cell of a board whose box is not at the origin
C1_Witness ==
  /\ pjCell # Null
  /\ pjArg = 90
  /\ pjCell.displayRow = 0
  /\ pjCell.displayCol = 1
  /\ pjBoard.dimensions.minCol = -1
  /\ pjBoard.dimensions.maxRow = 1

(***************************************************************************)
(* Claim C2.  Round trip of the projector: the table generated at rotation *)
(* R, generated again at rotation (360-R)%360, shows every node of the     *)
(* original grid.  As claimed (C2_RoundTripToItself) the node of           *)
(* GridPosition (row, col) is shown in cell (row, col); as amended         *)
(* (C2_RoundTripToBoxOffset) it is shown in cell (row-minRow, col-minCol), *)
(* the cell rotation 0 shows it in.                                        *)
(***************************************************************************)
roundTripDone == pjPc = "reprojected" /\ pjBoard.rotation \in {0, 90, 180, 270}

C2_RoundTripToItself ==
  roundTripDone =>
    \A k \in DOMAIN pjBoard.grid :
      LET p == KeyPosition(k)
      IN /\ <<p.row, p.col>> \in DOMAIN pjTable2
         /\ pjTable2[<<p.row, p.col>>] = pjBoard.grid[k]

C2_RoundTripToBoxOffset ==
  roundTripDone =>
    \A k \in DOMAIN pjBoard.grid :
      LET p == KeyPosition(k)
          d == pjBoard.dimensions
          cell == <<p.row - d.minRow, p.col - d.minCol>>
      IN /\ cell \in DOMAIN pjTable2
         /\ pjTable2[cell] = pjBoard.grid[k]

\* a round trip through 90 and 270 of a two-node board that is not square
C2_Witness ==
  /\ pjPc = "reprojected"
  /\ pjBoard.rotation = 90
  /\ Cardinality(DOMAIN pjBoard.grid) = 2
  /\ pjBoard.dimensions.rows # pjBoard.dimensions.cols
  /\ pjBoard.dimensions.minRow = 1

(***************************************************************************)
(* Claim C10.  getGridDimensions, in either parser: every GridPosition of  *)
(* the grid lies within minRow..maxRow and minCol..maxCol, each of the     *)
(* four bounds is the row or column of some GridPosition of the grid,      *)
(* rows = maxRow - minRow + 1 and cols = maxCol - minCol + 1, and the      *)
(* result is the all-zero record exactly when the grid is empty.           *)
(***************************************************************************)
gridBuilt == pjPc \in {"board", "cell", "table", "reprojected"}

C10_GridDimensions ==
  gridBuilt =>
    LET d == pjBoard.dimensions
        placed == {pjBoard.nodes[i].gridPosition : i \in 1..Len(pjBoard.nodes)}
    IN /\ (d = ZeroDimensions) <=> (DOMAIN pjBoard.grid = {})
       /\ (DOMAIN pjBoard.grid = {}) <=> (placed = {})
       /\ placed # {} =>
            /\ \A p \in placed : /\ d.minRow <= p.row /\ p.row <= d.maxRow
                                  /\ d.minCol <= p.col /\ p.col <= d.maxCol
            /\ \E p \in placed : p.row = d.minRow
            /\ \E p \in placed : p.row = d.maxRow
            /\ \E p \in placed : p.col = d.minCol
            /\ \E p \in placed : p.col = d.maxCol
            /\ d.rows = d.maxRow - d.minRow + 1
            /\ d.cols = d.maxCol - d.minCol + 1

C10_Witness ==
  /\ pjPc = "board"
  /\ pjBoard.parser = "maxroll"
  /\ Cardinality(DOMAIN pjBoard.grid) = 2
  /\ pjBoard.dimensions.minRow = -1
  /\ pjBoard.dimensions.maxRow = 0
  /\ pjBoard.dimensions.minCol = 1
  /\ pjBoard.dimensions.cols = 1
  /\ pjBoard.dimensions.rows = 2

(***************************************************************************)
(* ParagonParser (Mobalytics).                                             *)
(*                                                                         *)
(* An element's style attribute is the record of what the parser's         *)
(* patterns find in it: left and top are a length [n, unit] or Null,       *)
(* rotate is <<degrees>> or <<>>.  The background image of its span is     *)
(* the record of the URL segments the patterns capture: icon (after        *)
(* board-icons/v2/), stat (after nodes/), each without its "-active"       *)
(* suffix, whose presence is iconActive and statActive, and glyph (after   *)
(* glyphs/<class>-); "none" where the pattern does not match.  A text is   *)
(* a sequence of pieces, a digit being a piece of its own.                 *)
(***************************************************************************)
GRID_SPACING == 8
BOARD_SIZE == 168

\* Math.round(n / spacing) for an integer n: the nearest integer, a half going up
RoundDiv(n, spacing) == (2 * n + spacing) \div (2 * spacing)

parsePosition_emOrPx(style) ==
  IF /\ style.left # Null /\ style.left.unit \in {"em", "px"}
     /\ style.top # Null /\ style.top.unit \in {"em", "px"}
  THEN [left |-> style.left.n, top |-> style.top.n]
  ELSE Null

parsePosition(style) ==
  IF /\ style.left # Null /\ style.left.unit = "em"
     /\ style.top # Null /\ style.top.unit = "em"
  THEN [left |-> style.left.n, top |-> style.top.n]
  ELSE Null

parseRotation_normalized(style) ==
  IF style.rotate = <<>> THEN 0 ELSE ((style.rotate[1] % 360) \div 90) * 90

parseRotation(style) == IF style.rotate = <<>> THEN 0 ELSE style.rotate[1]

\* positionToGrid of a position whose left and top count 1/unit of an em
positionToGridOf_floor(position, unit) ==
  [col |-> position.left \div (unit * GRID_SPACING),
   row |-> position.top \div (unit * GRID_SPACING)]

positionToGridOf(position, unit) ==
  [col |-> RoundDiv(position.left, unit * GRID_SPACING),
   row |-> RoundDiv(position.top, unit * GRID_SPACING)]

positionToGrid(position) == positionToGridOf(position, 1)

parseNodeType_normalDefault(span, isGate) ==
  IF isGate THEN "gate"
  ELSE IF span.icon \in {"normal", "magic", "rare", "legendary"} THEN span.icon
  ELSE "normal"

parseNodeType(span, isGate) ==
  IF isGate THEN "gate"
  ELSE IF span.icon # "none" THEN span.icon
  ELSE "unknown"

\* stat.toLowerCase(), for the stat names of the samples
toLowerCase(stat) ==
  CASE stat = "Str" -> "str"
    [] stat = "DEX" -> "dex"
    [] OTHER -> stat

\* statMap[stat], <<>> where the table has no entry
statMap(stat) ==
  CASE stat = "str" -> <<"Str">>
    [] stat = "int" -> <<"Int">>
    [] stat = "dex" -> <<"Dex">>
    [] stat = "will" -> <<"Will">>
    [] stat = "damage" -> <<"Damage">>
    [] stat = "damagetoelite" -> <<"Elite Damage">>
    [] stat = "damagereduction" -> <<"Damage Reduction">>
    [] stat = "armor" -> <<"Armor">>
    [] stat = "resistance" -> <<"Resistance">>
    [] stat = "life" -> <<"Life">>
    [] stat = "gate" -> <<"Gate">>
    [] OTHER -> <<>>

\* statMap[stat.toLowerCase()] || stat
normalizeStatName(stat) ==
  IF statMap(toLowerCase(stat)) # <<>> THEN statMap(toLowerCase(stat)) ELSE <<stat>>

parseNodeStat(span) ==
  IF span.stat # "none" THEN normalizeStatName(span.stat) ELSE <<>>

parseSelectionState_anyUrl(span) ==
  \/ span.stat # "none" /\ span.statActive
  \/ span.icon # "none" /\ span.iconActive

parseSelectionState(span) == span.stat # "none" /\ span.statActive

\* name.charAt(0).toUpperCase() + name.slice(1)
capitalize(name) ==
  CASE name = "apostle" -> "Apostle"
    [] name = "exploit" -> "Exploit"
    [] OTHER -> name

parseGlyphName(span) ==
  IF span.glyph # "none" THEN <<capitalize(span.glyph)>> ELSE <<>>

parseNodeElement(element, isGate) ==
  LET position == parsePosition(element.style)
  IN IF position = Null THEN Null
     ELSE [element |-> element,
           position |-> position,
           gridPosition |-> positionToGrid(position),
           type |-> parseNodeType(element.span, isGate),
           stat |-> parseNodeStat(element.span),
           glyphName |-> <<>>,
           isSelected |-> parseSelectionState(element.span),
           rotation |-> parseRotation(element.style),
           isGate |-> isGate,
           isGlyph |-> FALSE,
           connectsTo |-> Undefined]

parseGlyphSocket(element) ==
  LET position == parsePosition(element.style)
      glyphName == parseGlyphName(element.span)
  IN IF position = Null THEN Null
     ELSE [element |-> element,
           position |-> position,
           gridPosition |-> positionToGrid(position),
           type |-> "glyph",
           stat |-> IF Len(glyphName) > 0 THEN <<"Glyph: ">> \o glyphName
                    ELSE <<"Glyph Socket">>,
           glyphName |-> glyphName,
           isSelected |-> TRUE,
           rotation |-> parseRotation(element.style),
           isGate |-> FALSE,
           isGlyph |-> TRUE,
           connectsTo |-> Undefined]

NotNull(x) == x # Null

parseNodes_untilUnparsed(container) ==
  LET all == [i \in 1..Len(container.nodeEls) |->
                parseNodeElement(container.nodeEls[i], FALSE)]
      unparsed == {i \in 1..Len(all) : all[i] = Null}
  IN IF unparsed = {} THEN all ELSE SubSeq(all, 1, SetMin(unparsed) - 1)

parseNodes(container) ==
  SelectSeq([i \in 1..Len(container.nodeEls) |->
               parseNodeElement(container.nodeEls[i], FALSE)], NotNull)

parseGates(container) ==
  SelectSeq([i \in 1..Len(container.gateEls) |->
               parseNodeElement(container.gateEls[i], TRUE)], NotNull)

parseGlyphSockets(container) ==
  SelectSeq([i \in 1..Len(container.socketEls) |->
               parseGlyphSocket(container.socketEls[i])], NotNull)

parseBoardInfo(container) ==
  [name |-> IF container.nameEl = <<>> THEN <<"Unknown Board">> ELSE container.nameEl[1],
   fullName |-> IF container.fullNameEl = <<>> THEN <<>> ELSE container.fullNameEl[1]]

\* the order in which parseBoard hands the three collections to buildGrid
layerOrder_gatesFirst(glyphSockets, nodes, gates) == gates \o nodes \o glyphSockets

layerOrder(glyphSockets, nodes, gates) == glyphSockets \o nodes \o gates

parseBoard(container, boardIndex) ==
  LET boardInfo == parseBoardInfo(container)
      allNodes == layerOrder(parseGlyphSockets(container), parseNodes(container),
                             parseGates(container))
      grid == buildGrid(allNodes)
  IN [index |-> boardIndex,
      name |-> boardInfo.name,
      fullName |-> boardInfo.fullName,
      rotation |-> parseRotation(container.style),
      position |-> parsePosition(container.style),
      nodes |-> allNodes,
      grid |-> grid,
      dimensions |-> getGridDimensions(grid),
      container |-> boardIndex]

HasNodes(board) == Len(board.nodes) > 0

parseAllBoards(page) ==
  IF ~page.hasContainer THEN <<>>
  ELSE SelectSeq([i \in 1..Len(page.wrappers) |-> parseBoard(page.wrappers[i], i)],
                 HasNodes)

getGateEdge(position) ==
  IF position.top = 0 THEN "TOP"
  ELSE IF position.left = 160 THEN "RIGHT"
  ELSE IF position.top = 160 THEN "BOTTOM"
  ELSE IF position.left = 0 THEN "LEFT"
  ELSE IF position.top < 40 THEN "TOP"
  ELSE IF position.left > 120 THEN "RIGHT"
  ELSE IF position.top > 120 THEN "BOTTOM"
  ELSE "LEFT"

directions == <<"TOP", "RIGHT", "BOTTOM", "LEFT">>

indexOf(seq, x) ==
  IF \E i \in 1..Len(seq) : seq[i] = x
  THEN (CHOOSE i \in 1..Len(seq) : seq[i] = x /\ \A j \in 1..(i - 1) : seq[j] # x) - 1
  ELSE -1

\* directions[(edgeIndex + normalizedRotation / 90) % 4]: no element of the
\* array when the index is not a whole number
rotateDirection_counterClockwise(edge, rotation) ==
  LET normalizedRotation == JsRem(JsRem(rotation, 360) + 360, 360)
  IN IF normalizedRotation % 90 = 0
     THEN directions[((indexOf(directions, edge) + 4 - (normalizedRotation \div 90)) % 4) + 1]
     ELSE "undefined"

rotateDirection(edge, rotation) ==
  LET normalizedRotation == JsRem(JsRem(rotation, 360) + 360, 360)
  IN IF normalizedRotation % 90 = 0
     THEN directions[((indexOf(directions, edge) + (normalizedRotation \div 90)) % 4) + 1]
     ELSE "undefined"

findAdjacentBoard_selfIncluded(boardList, currentBoard, direction) ==
  IF currentBoard.position = Null THEN Null
  ELSE
    LET currentLeft == currentBoard.position.left
        currentTop == currentBoard.position.top
        expectedLeft == CASE direction = "RIGHT" -> currentLeft + BOARD_SIZE
                          [] direction = "LEFT" -> currentLeft - BOARD_SIZE
                          [] OTHER -> currentLeft
        expectedTop == CASE direction = "TOP" -> currentTop - BOARD_SIZE
                         [] direction = "BOTTOM" -> currentTop + BOARD_SIZE
                         [] OTHER -> currentTop
        matches(board) ==
          /\ board.position # Null
          /\ Abs(board.position.left - expectedLeft) < 10
          /\ Abs(board.position.top - expectedTop) < 10
        found == {i \in 1..Len(boardList) : matches(boardList[i])}
    IN IF found = {} THEN Null ELSE boardList[SetMin(found)]

findAdjacentBoard(boardList, currentBoard, direction) ==
  IF currentBoard.position = Null THEN Null
  ELSE
    LET currentLeft == currentBoard.position.left
        currentTop == currentBoard.position.top
        expectedLeft == CASE direction = "RIGHT" -> currentLeft + BOARD_SIZE
                          [] direction = "LEFT" -> currentLeft - BOARD_SIZE
                          [] OTHER -> currentLeft
        expectedTop == CASE direction = "TOP" -> currentTop - BOARD_SIZE
                         [] direction = "BOTTOM" -> currentTop + BOARD_SIZE
                         [] OTHER -> currentTop
        matches(board) ==
          /\ board.position # Null
          /\ board.index # currentBoard.index
          /\ Abs(board.position.left - expectedLeft) < 10
          /\ Abs(board.position.top - expectedTop) < 10
        found == {i \in 1..Len(boardList) : matches(boardList[i])}
    IN IF found = {} THEN Null ELSE boardList[SetMin(found)]

IsDigit(piece) == \E i \in 1..10 : DigitChars[i] = piece

\* text.replace(/^\d+/, '')
RECURSIVE stripLeadingDigits(_)
stripLeadingDigits(text) ==
  IF Len(text) > 0 /\ IsDigit(text[1]) THEN stripLeadingDigits(Tail(text)) ELSE text

connectionTo(boardList, board, node) ==
  LET gateEdge == getGateEdge(node.position)
      actualDirection == rotateDirection(gateEdge, board.rotation)
      connectedBoard == findAdjacentBoard(boardList, board, actualDirection)
  IN IF connectedBoard # Null
     THEN [index |-> connectedBoard.index,
           name |-> stripLeadingDigits(IF Len(connectedBoard.fullName) > 0
                                       THEN connectedBoard.fullName
                                       ELSE connectedBoard.name)]
     ELSE Null

\* the node after the loop body of calculateGateConnections has visited it
connected(boardList, board, node) ==
  IF node.isGate
  THEN [node EXCEPT !.connectsTo = connectionTo(boardList, board, node)]
  ELSE node

\* board.grid holds the node objects of board.nodes, so an assignment to a
\* node shows in both
calculateGateConnections(boardList) ==
  [b \in 1..Len(boardList) |->
     [boardList[b] EXCEPT
        !.nodes = [n \in 1..Len(boardList[b].nodes) |->
                     connected(boardList, boardList[b], boardList[b].nodes[n])],
        !.grid = [k \in DOMAIN boardList[b].grid |->
                    connected(boardList, boardList[b], boardList[b].grid[k])]]]

(***************************************************************************)
(* The Mobalytics pipeline: processBoards calls parseAllBoards, then       *)
(* calculateGateConnections on the list it returned.                       *)
(***************************************************************************)
ParseAllBoardsB ==
  /\ site = "mobalytics"
  /\ pc = "page"
  /\ boards' = parseAllBoards(dom)
  /\ pc' = "parsed"
  /\ UNCHANGED <<site, dom, pjVars, edVars, psVars, daVars, scVars>>

CalculateGateConnectionsB ==
  /\ site = "mobalytics"
  /\ pc = "parsed"
  /\ boards' = calculateGateConnections(boards)
  /\ pc' = "connected"
  /\ UNCHANGED <<site, dom, pjVars, edVars, psVars, daVars, scVars>>

NextB == ParseAllBoardsB \/ CalculateGateConnectionsB

ProjectorIdle ==
  /\ pjBoard = Null
  /\ pjPc = "idle"
  /\ pjCell = Null
  /\ pjSource = Null
  /\ pjArg = 0
  /\ pjTable1 = Null
  /\ pjTable2 = Null

(***************************************************************************)
(* Connection specification: a page of Mobalytics board wrappers.  One     *)
(* wrapper sits at {0, 0} with one gate on any of the four edges and any   *)
(* of the rotations; the others are drawn from a sample of neighbours at,  *)
(* near and just outside the places a gate can point to.                   *)
(***************************************************************************)
em(n) == [n |-> n, unit |-> "em"]
px(n) == [n |-> n, unit |-> "px"]

styleAt(left, top, rotate) == [left |-> left, top |-> top, rotate |-> rotate]

spanOf(icon, stat, active) ==
  [icon |-> icon, iconActive |-> active, stat |-> stat, statActive |-> active,
   glyph |-> "none"]

gateElB(left, top, active) ==
  [style |-> styleAt(em(left), em(top), <<>>), span |-> spanOf("none", "gate", active)]

plainElB(left, top, active) ==
  [style |-> styleAt(em(left), em(top), <<>>), span |-> spanOf("normal", "str", active)]

wrapperB(style, nameEl, fullNameEl, nodeEls, gateEls, socketEls) ==
  [style |-> style, nameEl |-> nameEl, fullNameEl |-> fullNameEl,
   nodeEls |-> nodeEls, gateEls |-> gateEls, socketEls |-> socketEls]

GatePlaces == {<<80, 0>>, <<160, 80>>, <<80, 160>>, <<0, 80>>, <<130, 100>>}
WrapperRotations == {<<>>, <<90>>, <<180>>, <<270>>, <<-90>>, <<450>>, <<45>>}

CentreWrappers ==
  {wrapperB(styleAt(em(0), em(0), r), <<<<"Start">>>>, <<<<"1", "Start">>>>,
            <<plainElB(80, 80, TRUE)>>, <<gateElB(g[1], g[2], TRUE)>>, <<>>) :
     g \in GatePlaces, r \in WrapperRotations}

NeighbourWrappers ==
  { wrapperB(styleAt(em(168), em(0), <<>>), <<<<"Castle">>>>, <<<<"2", "Castle / Exploit">>>>,
             <<>>, <<gateElB(0, 80, TRUE)>>, <<>>),
    wrapperB(styleAt(em(177), em(9), <<>>), <<<<"Exploit">>>>, <<>>,
             <<plainElB(80, 80, FALSE)>>, <<>>, <<>>),
    wrapperB(styleAt(em(178), em(0), <<>>), <<<<"Keep">>>>, <<<<"3", "4", "Keep">>>>,
             <<plainElB(80, 80, FALSE)>>, <<>>, <<>>),
    wrapperB(styleAt(em(0), em(-168), <<180>>), <<<<"7", "Gates">>>>, <<>>,
             <<>>, <<gateElB(80, 0, FALSE)>>, <<>>),
    wrapperB(styleAt(em(-168), em(0), <<>>), <<>>, <<>>,
             <<plainElB(80, 80, FALSE)>>, <<>>, <<>>),
    wrapperB(styleAt(em(0), em(168), <<>>), <<<<"Tower">>>>, <<<<"Tower">>>>,
             <<plainElB(80, 80, FALSE)>>, <<>>, <<>>),
    wrapperB(styleAt(Null, em(0), <<>>), <<<<"Adrift">>>>, <<<<"5", "Adrift">>>>,
             <<>>, <<gateElB(160, 80, TRUE)>>, <<>>),
    wrapperB(styleAt(em(0), em(0), <<>>), <<<<"Twin">>>>, <<<<"6", "Twin">>>>,
             <<plainElB(80, 80, FALSE)>>, <<>>, <<>>),
    wrapperB(styleAt(em(168), em(0), <<>>), <<<<"Bare">>>>, <<<<"8", "Bare">>>>,
             <<>>, <<>>, <<>>) }

InsertAt(seq, k, x) == SubSeq(seq, 1, k) \o <<x>> \o SubSeq(seq, k + 1, Len(seq))

InitConnections ==
  /\ site = "mobalytics"
  /\ \/ dom = [hasContainer |-> FALSE, wrappers |-> <<>>]
     \/ \E centre \in CentreWrappers :
          \E others \in SeqsUpTo(NeighbourWrappers, MaxBoardsB - 1) :
            \E k \in 0..Len(others) :
              dom = [hasContainer |-> TRUE, wrappers |-> InsertAt(others, k, centre)]
  /\ boards = <<>>
  /\ ProcessStarted
  /\ ProjectorIdle
  /\ EdgesIdle
  /\ PositionIdle

SpecConnections == InitConnections /\ [][NextB]_vars

(***************************************************************************)
(* Claim C7.  After ParagonParser.calculateGateConnections every gate's    *)
(* connectsTo names the first board in list order, other than the gate's   *)
(* own, whose Position is within less than 10 on both axes of the board's  *)
(* own Position offset by 168 in the gate's direction (its local edge      *)
(* turned clockwise by rotation/90 steps in [TOP, RIGHT, BOTTOM, LEFT]);   *)
(* null when no board matches.                                             *)
(*   As claimed (C7_ConnectsToIndexAndName), for rotations that are        *)
(* multiples of 90, connectsTo is {index, name} of that board.             *)
(*   As amended (C7_ConnectsToStrippedName), the name is the board's       *)
(* fullName, or its name when fullName is empty, without leading digits;   *)
(* a rotation that is no multiple of 90 gives no direction and the         *)
(* expected Position is the board's own; a board without Position neither  *)
(* connects nor matches.                                                   *)
(***************************************************************************)
clockwiseFrom(edge, steps) ==
  directions[((indexOf(directions, edge) + steps) % 4) + 1]

offsetPosition(position, direction) ==
  CASE direction = "TOP"    -> [left |-> position.left, top |-> position.top - 168]
    [] direction = "RIGHT"  -> [left |-> position.left + 168, top |-> position.top]
    [] direction = "BOTTOM" -> [left |-> position.left, top |-> position.top + 168]
    [] direction = "LEFT"   -> [left |-> position.left - 168, top |-> position.top]
    [] OTHER                -> position

\* list places of the boards, other than place b, within tolerance of expected
candidates(b, expected) ==
  {j \in 1..Len(boards) :
     /\ j # b
     /\ boards[j].position # Null
     /\ Abs(boards[j].position.left - expected.left) < 10
     /\ Abs(boards[j].position.top - expected.top) < 10}

claimedDirection(b, n) ==
  IF boards[b].rotation % 90 = 0
  THEN clockwiseFrom(getGateEdge(boards[b].nodes[n].position), boards[b].rotation \div 90)
  ELSE "none"

claimedMatches(b, n) ==
  IF boards[b].position = Null THEN {}
  ELSE candidates(b, offsetPosition(boards[b].position, claimedDirection(b, n)))

withoutLeadingDigits(text) ==
  LET others == {i \in 1..Len(text) : ~IsDigit(text[i])}
  IN IF others = {} THEN <<>> ELSE SubSeq(text, SetMin(others), Len(text))

gatesOfBoards ==
  {bn \in (1..Len(boards)) \X (1..4) :
     /\ bn[2] <= Len(boards[bn[1]].nodes)
     /\ boards[bn[1]].nodes[bn[2]].isGate}

C7_ConnectsToIndexAndName ==
  pc = "connected" =>
    \A bn \in gatesOfBoards :
      LET b == bn[1]
          gate == boards[b].nodes[bn[2]]
          found == claimedMatches(b, bn[2])
      IN boards[b].rotation % 90 = 0 =>
           IF found = {} THEN gate.connectsTo = Null
           ELSE gate.connectsTo = [index |-> boards[SetMin(found)].index,
                                   name |-> boards[SetMin(found)].name]

C7_ConnectsToStrippedName ==
  pc = "connected" =>
    \A bn \in gatesOfBoards :
      LET b == bn[1]
          gate == boards[b].nodes[bn[2]]
          found == claimedMatches(b, bn[2])
      IN IF found = {} THEN gate.connectsTo = Null
         ELSE LET target == boards[SetMin(found)]
              IN gate.connectsTo =
                   [index |-> target.index,
                    name |-> withoutLeadingDigits(IF target.fullName # <<>>
                                                  THEN target.fullName
                                                  ELSE target.name)]

\* a board turned by 90 degrees whose TOP gate therefore faces RIGHT, with two
\* boards within tolerance of {168, 0}: the gate connects to the first of them
C7_Witness ==
  /\ pc = "connected"
  /\ Len(boards) = 3
  /\ boards[1].rotation = 90
  /\ boards[1].position = [left |-> 0, top |-> 0]
  /\ boards[1].nodes[2].isGate
  /\ boards[1].nodes[2].position = [left |-> 80, top |-> 0]
  /\ boards[2].position = [left |-> 177, top |-> 9]
  /\ boards[3].position = [left |-> 168, top |-> 0]
  /\ boards[1].nodes[2].connectsTo = [index |-> 2, name |-> <<"Exploit">>]

(***************************************************************************)
(* MaxrollParser.                                                          *)
(*                                                                         *)
(* A node element is its style (as above), its class list, the set of      *)
(* edge markers (.d4t-edge.d4t-n, -s, -e, -w) found inside it, the         *)
(* background-position-x of its icon ("none" without an icon or a match)   *)
(* and whether it holds a glyph image.  A gate without a known edge has    *)
(* gateEdge "null".                                                        *)
(***************************************************************************)
Maxroll_GRID_SPACING == 1

Maxroll_parsePosition(style) ==
  IF /\ style.left # Null /\ style.left.unit \in {"em", "px"}
     /\ style.top # Null /\ style.top.unit \in {"em", "px"}
  THEN [left |-> style.left.n, top |-> style.top.n]
  ELSE Null

Maxroll_positionToGridOf(position, unit) ==
  [col |-> RoundDiv(position.left, unit * Maxroll_GRID_SPACING),
   row |-> RoundDiv(position.top, unit * Maxroll_GRID_SPACING)]

Maxroll_positionToGrid(position) == Maxroll_positionToGridOf(position, 1)

Maxroll_getNodeType(classList) ==
  IF "d4t-r1" \in classList THEN "normal"
  ELSE IF "d4t-r2" \in classList THEN "magic"
  ELSE IF "d4t-r3" \in classList THEN "rare"
  ELSE IF "d4t-r4" \in classList THEN "legendary"
  ELSE "normal"

Maxroll_parseGateEdge(element) ==
  IF "n" \in element.edges THEN "NORTH"
  ELSE IF "s" \in element.edges THEN "SOUTH"
  ELSE IF "e" \in element.edges THEN "EAST"
  ELSE IF "w" \in element.edges THEN "WEST"
  ELSE "null"

Maxroll_parseIconStat_rawDefault(icon) ==
  CASE icon = "-53em" -> <<"Str">>
    [] icon = "-54em" -> <<"Int">>
    [] icon = "none" -> <<>>
    [] OTHER -> <<icon>>

Maxroll_parseIconStat(icon) ==
  CASE icon = "-53em" -> <<"Str">>
    [] icon = "-54em" -> <<"Int">>
    [] icon = "-55em" -> <<"Dex">>
    [] icon = "-56em" -> <<"Will">>
    [] icon = "-57em" -> <<"Armor">>
    [] icon = "-32em" -> <<"Damage">>
    [] icon = "-34em" -> <<"Life">>
    [] icon = "-15em" -> <<"Resistance">>
    [] icon = "-99em" -> <<"Gate">>
    [] OTHER -> <<>>

Maxroll_parseGlyphName(glyphStyle) == <<>>

Maxroll_parseNodeElement(element) ==
  LET position == Maxroll_parsePosition(element.style)
      classList == element.classes
      isGate == "d4t-gate" \in classList
      isSocket == "d4t-socket" \in classList
      glyphName == IF ~isGate /\ isSocket /\ element.glyphEl
                   THEN Maxroll_parseGlyphName(element) ELSE <<>>
      stat == IF isGate THEN <<"Gate">>
              ELSE IF isSocket
                   THEN IF Len(glyphName) > 0 THEN <<"Glyph: ">> \o glyphName
                        ELSE <<"Glyph Socket">>
              ELSE Maxroll_parseIconStat(element.icon)
  IN IF position = Null THEN Null
     ELSE [element |-> element,
           position |-> position,
           gridPosition |-> Maxroll_positionToGrid(position),
           type |-> IF isSocket THEN "glyph"
                    ELSE IF isGate THEN "gate"
                    ELSE Maxroll_getNodeType(classList),
           stat |-> stat,
           glyphName |-> glyphName,
           isSelected |-> "d4t-active" \in classList,
           rotation |-> 0,
           isGate |-> isGate,
           isGlyph |-> isSocket,
           isStart |-> "d4t-start" \in classList,
           gateEdge |-> IF isGate THEN Maxroll_parseGateEdge(element) ELSE "null",
           connectsTo |-> Undefined]

Maxroll_parseNodes(boardEl) ==
  SelectSeq([i \in 1..Len(boardEl.nodeEls) |->
               Maxroll_parseNodeElement(boardEl.nodeEls[i])], NotNull)

\* glyphName is <<>> where the code leaves info.glyphName unset
Maxroll_parseBoardInfo(boardEl) ==
  LET name == IF boardEl.nameEl = <<>> THEN <<"Unknown Board">> ELSE boardEl.nameEl[1]
      indexed == IF boardEl.indexEl = <<>> THEN <<>>
                 ELSE boardEl.indexEl[1] \o <<". ">> \o name
      glyphName == IF boardEl.glyphNameEl = <<>> THEN <<>> ELSE boardEl.glyphNameEl[1]
  IN [name |-> name,
      fullName |-> IF Len(glyphName) > 0 THEN indexed \o <<" / ">> \o glyphName
                   ELSE indexed,
      glyphName |-> glyphName]

Maxroll_getDataEdge_horizontalFirst(gridPos, dimensions) ==
  IF gridPos.col = dimensions.minCol THEN "WEST"
  ELSE IF gridPos.col = dimensions.maxCol THEN "EAST"
  ELSE IF gridPos.row = dimensions.minRow THEN "NORTH"
  ELSE IF gridPos.row = dimensions.maxRow THEN "SOUTH"
  ELSE "null"

Maxroll_getDataEdge(gridPos, dimensions) ==
  LET atTop == gridPos.row = dimensions.minRow
      atBottom == gridPos.row = dimensions.maxRow
      atLeft == gridPos.col = dimensions.minCol
      atRight == gridPos.col = dimensions.maxCol
  IN IF atTop THEN "NORTH"
     ELSE IF atBottom THEN "SOUTH"
     ELSE IF atLeft THEN "WEST"
     ELSE IF atRight THEN "EAST"
     ELSE "null"

edges == <<"NORTH", "EAST", "SOUTH", "WEST">>

Maxroll_calculateRotation_sameEdge(dataEdge, visualEdge) ==
  LET dataIndex == indexOf(edges, dataEdge)
      visualIndex == indexOf(edges, visualEdge)
  IN IF dataIndex = -1 \/ visualIndex = -1 THEN 0
     ELSE ((visualIndex - dataIndex + 4) % 4) * 90

Maxroll_calculateRotation_reversed(dataEdge, visualEdge) ==
  LET dataIndex == indexOf(edges, dataEdge)
      visualIndex == indexOf(edges, visualEdge)
      expectedIndex == (dataIndex + 2) % 4
      steps == (expectedIndex - visualIndex + 4) % 4
  IN IF dataIndex = -1 \/ visualIndex = -1 THEN 0
     ELSE steps * 90

Maxroll_calculateRotation(dataEdge, visualEdge) ==
  LET dataIndex == indexOf(edges, dataEdge)
      visualIndex == indexOf(edges, visualEdge)
      expectedIndex == (dataIndex + 2) % 4
      steps == (visualIndex - expectedIndex + 4) % 4
  IN IF dataIndex = -1 \/ visualIndex = -1 THEN 0
     ELSE steps * 90

IsGateWithEdge(node) == node.isGate /\ node.gateEdge # "null"

Maxroll_determineBoardRotation_firstGateOnly(nodes, dimensions) ==
  LET gates == SelectSeq(nodes, IsGateWithEdge)
  IN IF Len(gates) = 0 THEN 0
     ELSE Maxroll_calculateRotation(
            Maxroll_getDataEdge(gates[1].gridPosition, dimensions), gates[1].gateEdge)

Maxroll_determineBoardRotation(nodes, dimensions) ==
  LET gates == SelectSeq(nodes, IsGateWithEdge)
      usable == {i \in 1..Len(gates) :
                   Maxroll_getDataEdge(gates[i].gridPosition, dimensions) # "null"}
  IN IF Len(gates) = 0 \/ usable = {} THEN 0
     ELSE LET gate == gates[SetMin(usable)]
          IN Maxroll_calculateRotation(
               Maxroll_getDataEdge(gate.gridPosition, dimensions), gate.gateEdge)

Maxroll_backfillGlyph_nameOnly(nodes, glyphName) ==
  LET sockets == {i \in 1..Len(nodes) : nodes[i].isGlyph}
  IN IF Len(glyphName) = 0 \/ sockets = {} THEN nodes
     ELSE [nodes EXCEPT ![SetMin(sockets)] = [@ EXCEPT !.glyphName = glyphName]]

\* nodes.find(n => n.isGlyph) receives the board's glyph name
Maxroll_backfillGlyph(nodes, glyphName) ==
  LET sockets == {i \in 1..Len(nodes) : nodes[i].isGlyph}
  IN IF Len(glyphName) = 0 \/ sockets = {} THEN nodes
     ELSE [nodes EXCEPT ![SetMin(sockets)] =
             [@ EXCEPT !.glyphName = glyphName, !.stat = <<"Glyph: ">> \o glyphName]]

Maxroll_parseBoard(boardEl, boardIndex) ==
  LET boardInfo == Maxroll_parseBoardInfo(boardEl)
      nodes == Maxroll_backfillGlyph(Maxroll_parseNodes(boardEl), boardInfo.glyphName)
      grid == Maxroll_buildGrid(nodes)
      dimensions == Maxroll_getGridDimensions(grid)
  IN [index |-> boardIndex,
      name |-> boardInfo.name,
      fullName |-> boardInfo.fullName,
      rotation |-> Maxroll_determineBoardRotation(nodes, dimensions),
      position |-> Maxroll_parsePosition(boardEl.style),
      nodes |-> nodes,
      grid |-> grid,
      dimensions |-> dimensions,
      container |-> boardIndex]

Maxroll_parseAllBoards(page) ==
  IF ~page.hasContainer THEN <<>>
  ELSE SelectSeq([i \in 1..Len(page.wrappers) |->
                    Maxroll_parseBoard(page.wrappers[i], i)], HasNodes)

Maxroll_findGateWithEdge(board, edge) ==
  LET found == {i \in 1..Len(board.nodes) :
                  board.nodes[i].isGate /\ board.nodes[i].gateEdge = edge}
  IN IF found = {} THEN Null ELSE board.nodes[SetMin(found)]

complementary(edge) ==
  CASE edge = "NORTH" -> "SOUTH"
    [] edge = "SOUTH" -> "NORTH"
    [] edge = "EAST" -> "WEST"
    [] edge = "WEST" -> "EAST"

\* the statements after the return of calculateGateConnections (lines 490-558),
\* which never run
Maxroll_connectionTo(boardList, boardIndex, node) ==
  LET prevGate == IF boardIndex > 1 /\ node.gateEdge # "null"
                  THEN Maxroll_findGateWithEdge(boardList[boardIndex - 1],
                                                complementary(node.gateEdge))
                  ELSE Null
      nextGate == IF boardIndex < Len(boardList) /\ node.gateEdge # "null"
                  THEN Maxroll_findGateWithEdge(boardList[boardIndex + 1],
                                                complementary(node.gateEdge))
                  ELSE Null
      connectedBoard ==
        IF ~node.isSelected \/ node.gateEdge = "null" THEN Null
        ELSE IF prevGate # Null /\ prevGate.isSelected THEN boardList[boardIndex - 1]
        ELSE IF nextGate # Null /\ nextGate.isSelected THEN boardList[boardIndex + 1]
        ELSE Null
  IN IF connectedBoard # Null
     THEN [index |-> connectedBoard.index, name |-> connectedBoard.name]
     ELSE Null

Maxroll_connected(boardList, boardIndex, node) ==
  IF node.isGate
  THEN [node EXCEPT !.connectsTo = Maxroll_connectionTo(boardList, boardIndex, node)]
  ELSE node

Maxroll_calculateGateConnections_noReturn(boardList) ==
  [b \in 1..Len(boardList) |->
     [boardList[b] EXCEPT
        !.nodes = [n \in 1..Len(boardList[b].nodes) |->
                     Maxroll_connected(boardList, b, boardList[b].nodes[n])],
        !.grid = [k \in DOMAIN boardList[b].grid |->
                    Maxroll_connected(boardList, b, boardList[b].grid[k])]]]

\* returns at once (line 488)
Maxroll_calculateGateConnections(boardList) == boardList

(***************************************************************************)
(* The Maxroll pipeline.                                                   *)
(***************************************************************************)
ParseAllBoardsA ==
  /\ site = "maxroll"
  /\ pc = "page"
  /\ boards' = Maxroll_parseAllBoards(dom)
  /\ pc' = "parsed"
  /\ UNCHANGED <<site, dom, pjVars, edVars, psVars, daVars, scVars>>

CalculateGateConnectionsA ==
  /\ site = "maxroll"
  /\ pc = "parsed"
  /\ boards' = Maxroll_calculateGateConnections(boards)
  /\ pc' = "connected"
  /\ UNCHANGED <<site, dom, pjVars, edVars, psVars, daVars, scVars>>

NextA == ParseAllBoardsA \/ CalculateGateConnectionsA

(***************************************************************************)
(* Edge specification: the functions of the rotation inference applied to  *)
(* every Dimensions record over the coordinates, every GridPosition        *)
(* inside it and every visual edge.                                        *)
(***************************************************************************)
EdgeNames == {"NORTH", "EAST", "SOUTH", "WEST"}

\* the Dimensions of a non-empty grid
EdgeDimensions ==
  {[minRow |-> r[1], maxRow |-> r[2], minCol |-> c[1], maxCol |-> c[2],
    rows |-> r[2] - r[1] + 1, cols |-> c[2] - c[1] + 1] :
     r \in {x \in Coords \X Coords : x[1] <= x[2]},
     c \in {x \in Coords \X Coords : x[1] <= x[2]}}

InitEdges ==
  /\ EdgesIdle
  /\ PositionIdle
  /\ PipelineIdle
  /\ ProjectorIdle

GetDataEdge ==
  /\ \E dimensions \in EdgeDimensions :
       \E gridPos \in [row : dimensions.minRow..dimensions.maxRow,
                       col : dimensions.minCol..dimensions.maxCol] :
         /\ edIn' = [fn |-> "getDataEdge", gridPos |-> gridPos, dimensions |-> dimensions]
         /\ edOut' = [edge |-> Maxroll_getDataEdge(gridPos, dimensions)]
  /\ UNCHANGED <<pjVars, ppVars, psVars, daVars, scVars>>

CalculateRotation ==
  /\ \E dataEdge \in EdgeNames, visualEdge \in EdgeNames :
       /\ edIn' = [fn |-> "calculateRotation", dataEdge |-> dataEdge,
                   visualEdge |-> visualEdge]
       /\ edOut' = [rotation |-> Maxroll_calculateRotation(dataEdge, visualEdge)]
  /\ UNCHANGED <<pjVars, ppVars, psVars, daVars, scVars>>

\* determineBoardRotation's loop body for one gate (lines 412-420)
RotationOfGate ==
  /\ \E dimensions \in EdgeDimensions :
       \E gridPos \in [row : dimensions.minRow..dimensions.maxRow,
                       col : dimensions.minCol..dimensions.maxCol] :
         \E visualEdge \in EdgeNames :
           LET dataEdge == Maxroll_getDataEdge(gridPos, dimensions)
           IN /\ edIn' = [fn |-> "gate", gridPos |-> gridPos, dimensions |-> dimensions,
                          gateEdge |-> visualEdge]
              /\ edOut' = IF dataEdge = "null"
                          THEN [returns |-> FALSE, rotation |-> 0]
                          ELSE [returns |-> TRUE,
                                rotation |-> Maxroll_calculateRotation(dataEdge, visualEdge)]
  /\ UNCHANGED <<pjVars, ppVars, psVars, daVars, scVars>>

NextEdges == GetDataEdge \/ CalculateRotation \/ RotationOfGate

SpecEdges == InitEdges /\ [][NextEdges]_vars

(***************************************************************************)
(* Claim C3.  calculateRotation(D, V), for edges D and V, is 90 times the  *)
(* number of clockwise steps, in the order [NORTH, EAST, SOUTH, WEST],     *)
(* that lead from the edge opposite D to V, that is                        *)
(* ((index(V) - index(opposite(D)) + 4) mod 4) * 90.  A gate on the top    *)
(* row whose edge marker says SOUTH gives 0, one that says NORTH gives     *)
(* 180.                                                                    *)
(***************************************************************************)
edgeIndex(edge) ==
  CASE edge = "NORTH" -> 0 [] edge = "EAST" -> 1 [] edge = "SOUTH" -> 2 [] edge = "WEST" -> 3

oppositeEdge(edge) ==
  CASE edge = "NORTH" -> "SOUTH" [] edge = "SOUTH" -> "NORTH"
    [] edge = "EAST" -> "WEST" [] edge = "WEST" -> "EAST"

claimedRotation(D, V) == ((edgeIndex(V) - edgeIndex(oppositeEdge(D)) + 4) % 4) * 90

C3_RotationFormula ==
  /\ (edIn # Null /\ edIn.fn = "calculateRotation") =>
       edOut.rotation = claimedRotation(edIn.dataEdge, edIn.visualEdge)
  /\ (edIn # Null /\ edIn.fn = "gate" /\ edIn.gridPos.row = edIn.dimensions.minRow) =>
       /\ edOut.returns
       /\ edIn.gateEdge = "SOUTH" => edOut.rotation = 0
       /\ edIn.gateEdge = "NORTH" => edOut.rotation = 180

C3_Witness ==
  /\ edIn # Null
  /\ edIn.fn = "calculateRotation"
  /\ edIn.dataEdge = "EAST"
  /\ edIn.visualEdge = "NORTH"
  /\ edOut.rotation = 90

(***************************************************************************)
(* Claim C4.  getDataEdge tests row = minRow (NORTH), row = maxRow         *)
(* (SOUTH), col = minCol (WEST), col = maxCol (EAST) in that order and the *)
(* first test that holds decides; a corner is NORTH or SOUTH, never WEST   *)
(* or EAST; a position on no boundary has no edge.                         *)
(***************************************************************************)
C4_DataEdgePriority ==
  (edIn # Null /\ edIn.fn = "getDataEdge") =>
    LET p == edIn.gridPos
        d == edIn.dimensions
        onRow == p.row = d.minRow \/ p.row = d.maxRow
        onCol == p.col = d.minCol \/ p.col = d.maxCol
    IN /\ p.row = d.minRow => edOut.edge = "NORTH"
       /\ (p.row # d.minRow /\ p.row = d.maxRow) => edOut.edge = "SOUTH"
       /\ (~onRow /\ p.col = d.minCol) => edOut.edge = "WEST"
       /\ (~onRow /\ p.col # d.minCol /\ p.col = d.maxCol) => edOut.edge = "EAST"
       /\ (onRow /\ onCol) => edOut.edge \in {"NORTH", "SOUTH"}
       /\ (~onRow /\ ~onCol) => edOut.edge = "null"

C4_Witness ==
  /\ edIn # Null
  /\ edIn.fn = "getDataEdge"
  /\ edIn.gridPos.row = edIn.dimensions.maxRow
  /\ edIn.gridPos.row # edIn.dimensions.minRow
  /\ edIn.gridPos.col = edIn.dimensions.minCol
  /\ edIn.gridPos.col # edIn.dimensions.maxCol
  /\ edOut.edge = "SOUTH"

(***************************************************************************)
(* Maxroll pages.                                                          *)
(***************************************************************************)
elA(left, top, classes, edgeMarkers, icon, glyphEl) ==
  [style |-> styleAt(left, top, <<>>), classes |-> classes, edges |-> edgeMarkers,
   icon |-> icon, glyphEl |-> glyphEl]

boardA(style, nameEl, indexEl, glyphNameEl, nodeEls) ==
  [style |-> style, nameEl |-> nameEl, indexEl |-> indexEl,
   glyphNameEl |-> glyphNameEl, nodeEls |-> nodeEls]

(***************************************************************************)
(* Rotation specification: one Maxroll board of up to MaxNodesA nodes,     *)
(* each a plain node or a gate (without an edge marker, marked south, or   *)
(* marked west) at a corner, in the middle or on the right of a 3 x 3 box. *)
(***************************************************************************)
RotationPlaces == {<<0, 0>>, <<1, 1>>, <<2, 2>>, <<2, 1>>}

RotationElements ==
  UNION {{elA(em(p[1]), em(p[2]), {"d4t-node", "d4t-r1"}, {}, "-53em", FALSE),
          elA(em(p[1]), em(p[2]), {"d4t-node", "d4t-gate"}, {}, "none", FALSE),
          elA(em(p[1]), em(p[2]), {"d4t-node", "d4t-gate"}, {"s"}, "none", FALSE),
          elA(em(p[1]), em(p[2]), {"d4t-node", "d4t-gate", "d4t-active"}, {"w"}, "none", FALSE)} :
         p \in RotationPlaces}

InitRotation ==
  /\ site = "maxroll"
  /\ \E nodeEls \in SeqsUpTo(RotationElements, MaxNodesA) :
       dom = [hasContainer |-> TRUE,
              wrappers |-> <<boardA(styleAt(em(0), em(0), <<>>), <<<<"Start">>>>,
                                    <<<<"1">>>>, <<>>, nodeEls)>>]
  /\ boards = <<>>
  /\ ProcessStarted
  /\ ProjectorIdle
  /\ EdgesIdle
  /\ PositionIdle

SpecRotation == InitRotation /\ [][NextA]_vars

(***************************************************************************)
(* Claim C5.  The rotation of a Maxroll board is the rotation computed     *)
(* from the first node, in node order, that is a gate with a known edge    *)
(* direction and lies on a boundary of the board's Dimensions; gates after *)
(* it do not matter; a board without such a gate has rotation 0.           *)
(***************************************************************************)
claimedDataEdge(p, d) ==
  IF p.row = d.minRow THEN "NORTH"
  ELSE IF p.row = d.maxRow THEN "SOUTH"
  ELSE IF p.col = d.minCol THEN "WEST"
  ELSE IF p.col = d.maxCol THEN "EAST"
  ELSE "null"

qualifying(board) ==
  {i \in 1..Len(board.nodes) :
     /\ board.nodes[i].isGate
     /\ board.nodes[i].gateEdge # "null"
     /\ claimedDataEdge(board.nodes[i].gridPosition, board.dimensions) # "null"}

rotationFrom(board, i) ==
  claimedRotation(claimedDataEdge(board.nodes[i].gridPosition, board.dimensions),
                  board.nodes[i].gateEdge)

MaxrollBoards ==
  { boardA(styleAt(em(0), em(0), <<>>), <<<<"Start">>>>, <<<<"1">>>>, <<>>,
           <<elA(em(10), em(20), {"d4t-node", "d4t-r1", "d4t-active", "d4t-start"}, {},
                 "-53em", FALSE),
             elA(em(10), em(0), {"d4t-node", "d4t-gate", "d4t-active"}, {"n"}, "none", FALSE)>>),
    boardA(styleAt(em(0), em(-21), <<>>), <<<<"Castle">>>>, <<<<"2">>>>, <<<<"Exploit">>>>,
           <<elA(em(10), em(10), {"d4t-node", "d4t-socket", "d4t-active"}, {}, "none", TRUE),
             elA(em(10), em(20), {"d4t-node", "d4t-gate", "d4t-active"}, {"s"}, "none", FALSE),
             elA(em(0), em(10), {"d4t-node", "d4t-gate"}, {"w"}, "none", FALSE)>>),
    boardA(styleAt(px(21), px(0), <<>>), <<<<"Keep">>>>, <<<<"3">>>>, <<>>,
           <<elA(px(10), px(20), {"d4t-node", "d4t-gate", "d4t-active"}, {"s"}, "none", FALSE),
             elA(px(10), px(19), {"d4t-node", "d4t-r2", "d4t-active"}, {}, "-54em", FALSE)>>),
    boardA(styleAt(em(0), em(21), <<>>), <<<<"Tower">>>>, <<>>, <<>>,
           <<elA(em(10), em(1), {"d4t-node", "d4t-r3"}, {}, "-32em", FALSE),
             elA(em(10), em(0), {"d4t-node", "d4t-gate", "d4t-active"}, {"n"}, "none", FALSE)>>),
    boardA(styleAt(em(21), em(21), <<>>), <<<<"Bare">>>>, <<<<"4">>>>, <<>>, <<>>),
    boardA(styleAt(em(-21), em(0), <<>>), <<<<"Ruin">>>>, <<<<"5">>>>, <<<<"Territorial">>>>,
           <<elA(em(20), em(10), {"d4t-node", "d4t-gate", "d4t-active"}, {}, "none", FALSE),
             elA(em(19), em(10), {"d4t-node", "d4t-r4"}, {}, "none", FALSE)>>),
    boardA(styleAt(em(42), em(0), <<>>), <<>>, <<>>, <<>>,
           <<elA(em(0), em(10), {"d4t-node", "d4t-gate", "d4t-active"}, {"w"}, "none", FALSE),
             elA(em(20), em(10), {"d4t-node", "d4t-gate", "d4t-active"}, {"e"}, "none", FALSE)>>),
    boardA(styleAt(Null, Null, <<>>), <<<<"Adrift">>>>, <<<<"6">>>>, <<>>,
           <<elA(em(0), em(10), {"d4t-node", "d4t-gate", "d4t-active"}, {"e", "w"}, "none", FALSE),
             elA(Null, em(10), {"d4t-node", "d4t-r1"}, {}, "-53em", FALSE)>>) }

InitMaxroll ==
  /\ site = "maxroll"
  /\ \/ dom = [hasContainer |-> FALSE, wrappers |-> <<>>]
     \/ \E boardEls \in SeqsUpTo(MaxrollBoards, MaxBoardsA) :
          dom = [hasContainer |-> TRUE, wrappers |-> boardEls]
  /\ boards = <<>>
  /\ ProcessStarted
  /\ ProjectorIdle
  /\ EdgesIdle
  /\ PositionIdle

SpecMaxroll == InitMaxroll /\ [][NextA]_vars

(***************************************************************************)
(* Claim C6.  On Maxroll, after parseAllBoards and calculateGateConnections *)
(* no gate of any board has a connection, whatever the boards, gate edges  *)
(* and selection states, and calculateGateConnections leaves the list of   *)
(* boards as it was.  (The parser never assigns connectsTo: the property   *)
(* is absent from its nodes, which readers of the node take, like null, as *)
(* no connection.)                                                         *)
(***************************************************************************)
noConnection(node) == node.connectsTo \in {Null, Undefined}

C6_NoConnections ==
  /\ [](pc = "connected" =>
          \A b \in 1..Len(boards) :
            /\ \A n \in 1..Len(boards[b].nodes) : noConnection(boards[b].nodes[n])
            /\ \A k \in DOMAIN boards[b].grid : noConnection(boards[b].grid[k]))
  /\ [][(pc = "parsed" /\ pc' = "connected") => boards' = boards]_vars

selectedGates(board, edge) ==
  {n \in 1..Len(board.nodes) :
     /\ board.nodes[n].isGate
     /\ board.nodes[n].isSelected
     /\ board.nodes[n].gateEdge = edge}

C6_Witness ==
  /\ site = "maxroll"
  /\ pc = "connected"
  /\ Len(boards) = 2
  /\ selectedGates(boards[1], "NORTH") # {}
  /\ selectedGates(boards[2], "SOUTH") # {}
  /\ \A b \in 1..2 : \A n \in 1..Len(boards[b].nodes) : noConnection(boards[b].nodes[n])

(***************************************************************************)
(* Layer specification: one board of either site whose elements fall on    *)
(* the same and on different GridPositions.  On Mobalytics (spacing 8) the *)
(* lengths 0 and 3 round to 0 and 4 and 8 round to 1; one style has no     *)
(* position and one is in px, which this parser does not read.  On Maxroll *)
(* (spacing 1) an em and a px length of the same number meet.              *)
(***************************************************************************)
LayerStylesB ==
  {styleAt(em(0), em(0), <<>>), styleAt(em(3), em(0), <<>>), styleAt(em(4), em(0), <<>>),
   styleAt(em(8), em(8), <<>>), styleAt(em(0), em(-8), <<>>), styleAt(Null, em(0), <<>>),
   styleAt(px(8), em(8), <<>>)}

SocketElsB ==
  {[style |-> st, span |-> [icon |-> "none", iconActive |-> FALSE, stat |-> "none",
                            statActive |-> FALSE, glyph |-> "exploit"]] : st \in LayerStylesB}

NodeElsB == {[style |-> st, span |-> spanOf("magic", "dex", TRUE)] : st \in LayerStylesB}

GateElsB == {[style |-> st, span |-> spanOf("none", "gate", FALSE)] : st \in LayerStylesB}

LayerStylesA ==
  {styleAt(em(0), em(0), <<>>), styleAt(em(1), em(0), <<>>), styleAt(px(0), px(0), <<>>),
   styleAt(Null, Null, <<>>)}

LayerElsA ==
  UNION {{elA(st.left, st.top, {"d4t-node", "d4t-r2", "d4t-active"}, {}, "-55em", FALSE),
          elA(st.left, st.top, {"d4t-node", "d4t-gate"}, {"n"}, "none", FALSE),
          elA(st.left, st.top, {"d4t-node", "d4t-socket"}, {}, "none", TRUE)} :
         st \in LayerStylesA}

InitLayers ==
  /\ \/ /\ site = "mobalytics"
        /\ \E socketEls \in SeqsUpTo(SocketElsB, 1), gateEls \in SeqsUpTo(GateElsB, 1) :
             \E nodeEls \in SeqsUpTo(NodeElsB, MaxLayerNodes) :
               dom = [hasContainer |-> TRUE,
                      wrappers |-> <<wrapperB(styleAt(em(0), em(0), <<>>), <<<<"Start">>>>,
                                              <<<<"1", "Start">>>>,
                                              nodeEls, gateEls, socketEls)>>]
     \/ /\ site = "maxroll"
        /\ \E nodeEls \in SeqsUpTo(LayerElsA, MaxLayerNodes) :
             dom = [hasContainer |-> TRUE,
                    wrappers |-> <<boardA(styleAt(em(0), em(0), <<>>), <<<<"Start">>>>,
                                          <<<<"1">>>>, <<<<"Exploit">>>>, nodeEls)>>]
  /\ boards = <<>>
  /\ ProcessStarted
  /\ ProjectorIdle
  /\ EdgesIdle
  /\ PositionIdle

NextLayers == NextA \/ NextB

SpecLayers == InitLayers /\ [][NextLayers]_vars

(***************************************************************************)
(* Claim C8.  ParagonParser.parseBoard puts glyph sockets, then plain      *)
(* nodes, then gates into the grid, a later node replacing an earlier one  *)
(* at the same GridPosition: where nodes of several layers meet, the grid  *)
(* holds a gate if there is one, otherwise a plain node, and a glyph       *)
(* socket only where neither a plain node nor a gate lies.                 *)
(***************************************************************************)
parsedB == site = "mobalytics" /\ pc \in {"parsed", "connected"}

nodesAt(board, key) == {i \in 1..Len(board.nodes) : NodeKey(board.nodes[i]) = key}

layerOf(node) == IF node.isGate THEN "gate" ELSE IF node.isGlyph THEN "socket" ELSE "node"

layersAt(board, key) == {layerOf(board.nodes[i]) : i \in nodesAt(board, key)}

C8_LayerPriority ==
  parsedB =>
    \A b \in 1..Len(boards) :
      \A i \in 1..Len(boards[b].nodes) :
        LET key == NodeKey(boards[b].nodes[i])
            layers == layersAt(boards[b], key)
        IN /\ key \in DOMAIN boards[b].grid
           /\ layerOf(boards[b].grid[key]) =
                IF "gate" \in layers THEN "gate"
                ELSE IF "node" \in layers THEN "node"
                ELSE "socket"

C8_Witness ==
  /\ parsedB
  /\ Len(boards) = 1
  /\ \E key \in DOMAIN boards[1].grid :
       /\ layersAt(boards[1], key) = {"socket", "node", "gate"}
       /\ boards[1].grid[key].isGate

(***************************************************************************)
(* Claim C9.  Nodes of one board and their GridPositions.                  *)
(*   As claimed (C9_NoSharedGridPosition): no two nodes of a board's node  *)
(* collection have the same GridPosition.                                  *)
(*   As the parsers behave (C9_OneGridNodePerPosition): the node           *)
(* collection keeps every parsed node, several of which may have the same  *)
(* GridPosition; the grid holds one node for each GridPosition of the      *)
(* collection, the last node of the collection at that position.           *)
(***************************************************************************)
parsed == pc \in {"parsed", "connected"}

C9_NoSharedGridPosition ==
  parsed =>
    \A b \in 1..Len(boards) :
      \A i, j \in 1..Len(boards[b].nodes) :
        i # j => boards[b].nodes[i].gridPosition # boards[b].nodes[j].gridPosition

C9_OneGridNodePerPosition ==
  parsed =>
    \A b \in 1..Len(boards) :
      LET nodes == boards[b].nodes
          grid == boards[b].grid
          at(p) == {i \in 1..Len(nodes) : nodes[i].gridPosition = p}
      IN /\ \A i \in 1..Len(nodes) :
              /\ NodeKey(nodes[i]) \in DOMAIN grid
              /\ grid[NodeKey(nodes[i])] = nodes[SetMax(at(nodes[i].gridPosition))]
         /\ \A k \in DOMAIN grid : \E i \in 1..Len(nodes) : NodeKey(nodes[i]) = k
         /\ \A k \in DOMAIN grid : grid[k].gridPosition = KeyPosition(k)

C9_Witness ==
  /\ site = "mobalytics"
  /\ pc = "parsed"
  /\ Len(boards) = 1
  /\ Len(boards[1].nodes) = 3
  /\ boards[1].nodes[1].isGlyph
  /\ boards[1].nodes[3].isGate
  /\ boards[1].nodes[1].gridPosition = boards[1].nodes[3].gridPosition
  /\ boards[1].nodes[1].gridPosition # boards[1].nodes[2].gridPosition
  /\ Cardinality(DOMAIN boards[1].grid) = 2
  /\ boards[1].grid[NodeKey(boards[1].nodes[3])] = boards[1].nodes[3]

(***************************************************************************)
(* Position specification: the position functions of both parsers applied  *)
(* to styles and to pairs of positions.  Here a length counts tenths of    *)
(* its unit, so that 39 is 3.9 and 40 is 4.0; the values lie at, just      *)
(* below and just above the grid points and the halves between them.  A    *)
(* style's left and top are in em, in px, in another unit, or absent.      *)
(***************************************************************************)
Tenths == 10

Sites == {"maxroll", "mobalytics"}

RoundingValues(s) ==
  IF s = "maxroll" THEN {0, 4, 5, 6, 10, -5, -6, 15}
  ELSE {0, 39, 40, 41, 80, -40, -41, 120}

RoundingPositions(s) == [left : RoundingValues(s), top : RoundingValues(s)]

StyleLengths ==
  {Null} \cup [n : {0, 25, -80}, unit : {"em", "px", "%"}]

InitPosition ==
  /\ \/ \E s \in Sites, left \in StyleLengths, top \in StyleLengths :
          psIn = [fn |-> "parsePosition", site |-> s, style |-> styleAt(left, top, <<>>)]
     \/ \E s \in Sites :
          \E p1 \in RoundingPositions(s), p2 \in RoundingPositions(s) :
            psIn = [fn |-> "positionToGrid", site |-> s, positions |-> <<p1, p2>>]
  /\ psOut = Null
  /\ EdgesIdle
  /\ PipelineIdle
  /\ ProjectorIdle

ParsePosition ==
  /\ psIn.fn = "parsePosition"
  /\ psOut = Null
  /\ psOut' = [position |-> IF psIn.site = "maxroll" THEN Maxroll_parsePosition(psIn.style)
                            ELSE parsePosition(psIn.style)]
  /\ UNCHANGED <<psIn, pjVars, ppVars, edVars, daVars, scVars>>

PositionToGrid ==
  /\ psIn.fn = "positionToGrid"
  /\ psOut = Null
  /\ psOut' = [gridPositions |->
                 [i \in 1..2 |-> IF psIn.site = "maxroll"
                                 THEN Maxroll_positionToGridOf(psIn.positions[i], Tenths)
                                 ELSE positionToGridOf(psIn.positions[i], Tenths)]]
  /\ UNCHANGED <<psIn, pjVars, ppVars, edVars, daVars, scVars>>

NextPosition == ParsePosition \/ PositionToGrid

SpecPosition == InitPosition /\ [][NextPosition]_vars

(***************************************************************************)
(* Claim C11.  positionToGrid gives (round(top/spacing),                   *)
(* round(left/spacing)), spacing being 8 on Mobalytics and 1 on Maxroll.   *)
(*   As claimed (C11_CloseMeansSame), moreover, two positions whose lefts  *)
(* and whose tops are less than half the spacing apart get the same        *)
(* GridPosition.                                                           *)
(*   As the parsers behave (C11_RoundsToNearest): a position gets the grid *)
(* point nearest to it, a half going up; two positions that lie each       *)
(* less than half the spacing from the same grid point get the same        *)
(* GridPosition; two positions less than half the spacing apart get the    *)
(* same or neighbouring rows and columns (3.9 and 4.0 at spacing 8 get     *)
(* columns 0 and 1).                                                       *)
(***************************************************************************)
claimedSpacing(s) == IF s = "maxroll" THEN 1 ELSE 8

\* k = round(n / S): k - 1/2 <= n/S < k + 1/2
isRounded(k, n, S) == 2 * k * S - S <= 2 * n /\ 2 * n < 2 * k * S + S

distance(a, b) == IF a < b THEN b - a ELSE a - b

\* a and b, counted in 1/Tenths, are less than half the spacing apart
close(a, b, s) == 2 * distance(a, b) < Tenths * claimedSpacing(s)

positionToGridCalled == psIn # Null /\ psIn.fn = "positionToGrid" /\ psOut # Null

roundsEach ==
  \A i \in 1..2 :
    /\ isRounded(psOut.gridPositions[i].row, psIn.positions[i].top,
                 Tenths * claimedSpacing(psIn.site))
    /\ isRounded(psOut.gridPositions[i].col, psIn.positions[i].left,
                 Tenths * claimedSpacing(psIn.site))

C11_CloseMeansSame ==
  positionToGridCalled =>
    /\ roundsEach
    /\ (/\ close(psIn.positions[1].left, psIn.positions[2].left, psIn.site)
        /\ close(psIn.positions[1].top, psIn.positions[2].top, psIn.site))
       => psOut.gridPositions[1] = psOut.gridPositions[2]

C11_RoundsToNearest ==
  positionToGridCalled =>
    LET p == psIn.positions
        g == psOut.gridPositions
        S == Tenths * claimedSpacing(psIn.site)
    IN /\ roundsEach
       /\ \A row \in -2..2, col \in -2..2 :
            (\A i \in 1..2 : /\ 2 * distance(p[i].top, row * S) < S
                             /\ 2 * distance(p[i].left, col * S) < S)
            => (g[1] = [row |-> row, col |-> col] /\ g[2] = g[1])
       /\ close(p[1].top, p[2].top, psIn.site) => distance(g[1].row, g[2].row) <= 1
       /\ close(p[1].left, p[2].left, psIn.site) => distance(g[1].col, g[2].col) <= 1

C11_Witness ==
  /\ positionToGridCalled
  /\ psIn.site = "mobalytics"
  /\ psIn.positions = <<[left |-> 39, top |-> 80], [left |-> 40, top |-> 80]>>
  /\ psOut.gridPositions = <<[row |-> 1, col |-> 0], [row |-> 1, col |-> 1]>>

(***************************************************************************)
(* Claim C16.  The position parsers and the two length units.              *)
(*   As claimed (C16_BothUnitsInBothParsers): each parser reads left and   *)
(* top written in em or in px and returns the same numbers for both.       *)
(*   As the parsers behave (C16_UnitsReadByEachParser): Maxroll's parser   *)
(* reads em and px, left and top each in either, and returns the numbers   *)
(* as written whatever the unit; Mobalytics' parser reads em only and      *)
(* returns no position when left or top is in px; both return no position  *)
(* when left or top is absent or in another unit.                          *)
(***************************************************************************)
parsePositionCalled == psIn # Null /\ psIn.fn = "parsePosition" /\ psOut # Null

written(style, units) ==
  /\ style.left # Null /\ style.left.unit \in units
  /\ style.top # Null /\ style.top.unit \in units

numbersOf(style) == [left |-> style.left.n, top |-> style.top.n]

C16_BothUnitsInBothParsers ==
  (parsePositionCalled /\ written(psIn.style, {"em", "px"})) =>
    psOut.position = numbersOf(psIn.style)

C16_UnitsReadByEachParser ==
  parsePositionCalled =>
    LET units == IF psIn.site = "maxroll" THEN {"em", "px"} ELSE {"em"}
    IN psOut.position = IF written(psIn.style, units) THEN numbersOf(psIn.style) ELSE Null

C16_Witness ==
  /\ parsePositionCalled
  /\ psIn.site = "mobalytics"
  /\ written(psIn.style, {"px"})
  /\ psOut.position = Null

(***************************************************************************)
(* Node specification: one board of either site whose elements carry the   *)
(* markers the parsers read, in recognised, unrecognised and missing       *)
(* forms, together with elements whose style gives no position.  On        *)
(* Mobalytics the "-active" suffix is on the icon URL, on the stat URL, on *)
(* both or on neither, and the wrapper is turned by an angle or not at     *)
(* all.  On Maxroll the tier class, the role classes and the icon offset   *)
(* vary, and the board has a glyph label, an empty one or none.            *)
(***************************************************************************)
spanB(icon, iconActive, stat, statActive, glyph) ==
  [icon |-> icon, iconActive |-> iconActive, stat |-> stat, statActive |-> statActive,
   glyph |-> glyph]

MarkedSpansB ==
  {spanB("normal", FALSE, "str", FALSE, "none"),
   spanB("normal", TRUE, "Str", TRUE, "none"),
   spanB("magic", TRUE, "dex", FALSE, "none"),
   spanB("rare", FALSE, "damagetoelite", TRUE, "none"),
   spanB("legendary", FALSE, "none", FALSE, "none"),
   spanB("none", FALSE, "int", TRUE, "none"),
   spanB("start", FALSE, "thorns", TRUE, "none"),
   spanB("none", FALSE, "none", FALSE, "none")}

MarkedNodeElsB ==
  {[style |-> styleAt(em(8), em(8), <<>>), span |-> sp] : sp \in MarkedSpansB} \cup
  {[style |-> st, span |-> spanB("normal", FALSE, "str", TRUE, "none")] :
     st \in {styleAt(Null, em(8), <<>>), styleAt(em(16), Null, <<>>),
             styleAt(px(16), px(8), <<>>), styleAt(em(16), em(8), <<>>)}}

MarkedGateElsB ==
  {[style |-> styleAt(em(80), em(0), <<>>), span |-> spanB("none", FALSE, "gate", TRUE, "none")],
   [style |-> styleAt(em(80), em(0), <<>>), span |-> spanB("gate", TRUE, "gate", FALSE, "none")],
   [style |-> styleAt(Null, Null, <<>>), span |-> spanB("none", FALSE, "gate", TRUE, "none")]}

MarkedSocketElsB ==
  {[style |-> styleAt(em(80), em(80), <<>>), span |-> spanB("none", FALSE, "none", FALSE, "exploit")],
   [style |-> styleAt(em(80), em(80), <<>>), span |-> spanB("none", FALSE, "none", FALSE, "none")],
   [style |-> styleAt(em(80), Null, <<>>), span |-> spanB("none", FALSE, "none", FALSE, "apostle")]}

MarkedRotationsB == {<<>>, <<90>>, <<-90>>, <<45>>}

MarkedElsA ==
  {elA(em(1), em(1), {"d4t-node", "d4t-r1"}, {}, "-53em", FALSE),
   elA(em(1), em(1), {"d4t-node", "d4t-r2", "d4t-active"}, {}, "-54em", FALSE),
   elA(em(1), em(1), {"d4t-node", "d4t-r3"}, {}, "-1em", FALSE),
   elA(em(1), em(1), {"d4t-node", "d4t-r4", "d4t-active"}, {}, "none", FALSE),
   elA(em(1), em(1), {"d4t-node"}, {}, "-32em", FALSE),
   elA(em(1), em(1), {"d4t-node", "d4t-r2", "d4t-r4"}, {}, "-15em", FALSE),
   elA(em(1), em(0), {"d4t-node", "d4t-gate", "d4t-active"}, {"n"}, "none", FALSE),
   elA(em(1), em(0), {"d4t-node", "d4t-gate", "d4t-r3"}, {}, "-99em", FALSE),
   elA(em(2), em(2), {"d4t-node", "d4t-socket", "d4t-active"}, {}, "none", TRUE),
   elA(em(2), em(3), {"d4t-node", "d4t-socket", "d4t-r2"}, {}, "-53em", FALSE),
   elA(Null, Null, {"d4t-node", "d4t-r1"}, {}, "-53em", FALSE),
   elA(em(1), Null, {"d4t-node", "d4t-gate"}, {"s"}, "none", FALSE),
   elA(Null, px(2), {"d4t-node", "d4t-socket"}, {}, "none", TRUE),
   elA(px(3), px(1), {"d4t-node", "d4t-r1", "d4t-active"}, {}, "-55em", FALSE)}

GlyphLabelsA == {<<>>, <<<<>>>>, <<<<"Exploit">>>>}

InitNodes ==
  /\ \/ /\ site = "mobalytics"
        /\ \E socketEls \in SeqsUpTo(MarkedSocketElsB, 1), gateEls \in SeqsUpTo(MarkedGateElsB, 1) :
             \E nodeEls \in SeqsUpTo(MarkedNodeElsB, MaxMarkedNodes), r \in MarkedRotationsB :
               dom = [hasContainer |-> TRUE,
                      wrappers |-> <<wrapperB(styleAt(em(0), em(0), r), <<<<"Start">>>>,
                                              <<<<"1", "Start">>>>,
                                              nodeEls, gateEls, socketEls)>>]
     \/ /\ site = "maxroll"
        /\ \E nodeEls \in SeqsUpTo(MarkedElsA, MaxMarkedNodes), label \in GlyphLabelsA :
             dom = [hasContainer |-> TRUE,
                    wrappers |-> <<boardA(styleAt(em(0), em(0), <<>>), <<<<"Start">>>>,
                                          <<<<"1">>>>, label, nodeEls)>>]
  /\ boards = <<>>
  /\ ProcessStarted
  /\ ProjectorIdle
  /\ EdgesIdle
  /\ PositionIdle

SpecNodes == InitNodes /\ [][NextLayers]_vars

(***************************************************************************)
(* Claim C12.  Selection on Mobalytics.                                    *)
(*   As claimed (C12_ActiveSuffixOnly): every node of a parsed board, be   *)
(* it a plain node, a gate or a glyph socket, is selected exactly when its *)
(* image URL carries the "-active" suffix.                                 *)
(*   As the parser behaves (C12_ActiveStatOrSocket): a plain node or a     *)
(* gate is selected exactly when its stat image URL (nodes/...) carries    *)
(* the suffix, the suffix of the icon URL (board-icons/v2/...) not being   *)
(* looked at; a glyph socket is always selected.                           *)
(***************************************************************************)
carriesActive(span) ==
  \/ span.stat # "none" /\ span.statActive
  \/ span.icon # "none" /\ span.iconActive

C12_ActiveSuffixOnly ==
  parsedB =>
    \A b \in 1..Len(boards) :
      \A n \in 1..Len(boards[b].nodes) :
        boards[b].nodes[n].isSelected <=> carriesActive(boards[b].nodes[n].element.span)

C12_ActiveStatOrSocket ==
  parsedB =>
    \A b \in 1..Len(boards) :
      \A n \in 1..Len(boards[b].nodes) :
        LET node == boards[b].nodes[n]
            span == node.element.span
        IN IF node.isGlyph THEN node.isSelected
           ELSE node.isSelected <=> (span.stat # "none" /\ span.statActive)

C12_Witness ==
  /\ parsedB
  /\ Len(boards) = 1
  /\ \E n \in 1..Len(boards[1].nodes) :
       /\ boards[1].nodes[n].isGlyph
       /\ ~carriesActive(boards[1].nodes[n].element.span)
       /\ boards[1].nodes[n].isSelected
  /\ \E n \in 1..Len(boards[1].nodes) :
       /\ ~boards[1].nodes[n].isGlyph
       /\ boards[1].nodes[n].element.span.iconActive
       /\ ~boards[1].nodes[n].element.span.statActive
       /\ ~boards[1].nodes[n].isSelected

(***************************************************************************)
(* Claim C13.  The kind of a node whose kind marker is missing or not      *)
(* recognised.                                                             *)
(*   As claimed (C13_KindDefaultsToNormal): on both sites the kind of      *)
(* every node is one of normal, magic, rare, legendary, gate and glyph,    *)
(* and a plain node without a recognised marker has kind "normal".         *)
(*   As the parsers behave (C13_KindByMarker): on Maxroll the claim holds, *)
(* a plain node without a tier class being "normal".  On Mobalytics a gate *)
(* is "gate" and a socket "glyph", and a plain node has the name found in  *)
(* its board-icon URL without the "-active" suffix, whatever that name is, *)
(* and the kind "unknown" when its style has no board-icon URL.            *)
(***************************************************************************)
Kinds == {"normal", "magic", "rare", "legendary", "gate", "glyph"}

Tiers == {"d4t-r1", "d4t-r2", "d4t-r3", "d4t-r4"}

plain(node) == ~node.isGate /\ ~node.isGlyph

hasKindMarker(node) ==
  IF site = "maxroll" THEN node.element.classes \cap Tiers # {}
  ELSE node.element.span.icon \in Kinds

C13_KindDefaultsToNormal ==
  parsed =>
    \A b \in 1..Len(boards) :
      \A n \in 1..Len(boards[b].nodes) :
        LET node == boards[b].nodes[n]
        IN /\ node.type \in Kinds
           /\ (plain(node) /\ ~hasKindMarker(node)) => node.type = "normal"

C13_KindByMarker ==
  parsed =>
    \A b \in 1..Len(boards) :
      \A n \in 1..Len(boards[b].nodes) :
        LET node == boards[b].nodes[n]
        IN /\ node.isGlyph => node.type = "glyph"
           /\ (node.isGate /\ ~node.isGlyph) => node.type = "gate"
           /\ (plain(node) /\ site = "maxroll") =>
                /\ node.type \in Kinds \ {"gate", "glyph"}
                /\ ~hasKindMarker(node) => node.type = "normal"
           /\ (plain(node) /\ site = "mobalytics") =>
                node.type = IF node.element.span.icon = "none" THEN "unknown"
                            ELSE node.element.span.icon

C13_Witness ==
  /\ parsedB
  /\ Len(boards) = 1
  /\ \E n \in 1..Len(boards[1].nodes) :
       /\ plain(boards[1].nodes[n])
       /\ boards[1].nodes[n].element.span.icon = "none"
       /\ boards[1].nodes[n].type = "unknown"
  /\ \E n \in 1..Len(boards[1].nodes) :
       /\ plain(boards[1].nodes[n])
       /\ boards[1].nodes[n].type = "start"

(***************************************************************************)
(* Claim C14 (C14_UnknownStatIsEmpty).  On both sites a node that is       *)
(* neither a gate nor a glyph socket and whose stat marker is not          *)
(* recognised has an empty stat label, and the board is extracted all the  *)
(* same.  The marker is not recognised on Maxroll when the icon's offset   *)
(* is absent from the offset table (or the node has no icon offset at      *)
(* all), and on Mobalytics when the style has no stat URL of the form      *)
(* nodes/<name>.png.                                                       *)
(***************************************************************************)
offsetTable ==
  {"-53em", "-54em", "-55em", "-56em", "-57em", "-32em", "-34em", "-15em", "-99em"}

hasStatMarker(node) ==
  IF site = "maxroll" THEN node.element.icon \in offsetTable
  ELSE node.element.span.stat # "none"

unitsRead == IF site = "maxroll" THEN {"em", "px"} ELSE {"em"}

hasPosition(element) == written(element.style, unitsRead)

elementsOf(wrapper) ==
  IF site = "maxroll" THEN wrapper.nodeEls
  ELSE wrapper.socketEls \o wrapper.nodeEls \o wrapper.gateEls

C15_NoPositionDropped ==
  parsed =>
    \A w \in 1..Len(dom.wrappers) :
      LET kept == SelectSeq(elementsOf(dom.wrappers[w]), hasPosition)
          found == {b \in 1..Len(boards) : boards[b].container = w}
      IN IF kept = <<>> THEN found = {}
         ELSE \E b \in found :
                /\ found = {b}
                /\ [i \in 1..Len(boards[b].nodes) |-> boards[b].nodes[i].element] = kept
                /\ \A key \in DOMAIN boards[b].grid :
                     /\ hasPosition(boards[b].grid[key].element)
                     /\ \E i \in 1..Len(boards[b].nodes) :
                          boards[b].grid[key] = boards[b].nodes[i]

C15_Witness ==
  /\ parsed
  /\ Len(boards) = 1
  /\ LET els == elementsOf(dom.wrappers[1])
     IN /\ Len(els) = 3
        /\ ~hasPosition(els[1])
        /\ hasPosition(els[2])
        /\ ~hasPosition(els[3])
        /\ Len(boards[1].nodes) = 1
        /\ boards[1].nodes[1].element = els[2]
        /\ Cardinality(DOMAIN boards[1].grid) = 1

(***************************************************************************)
(* Claim C17.  The rotation of a board.                                    *)
(*   As claimed (C17_QuarterTurns): the rotation of every board of either  *)
(* site is one of 0, 90, 180 and 270.                                      *)
(*   As the parsers behave (C17_RotationAsRead): a Maxroll board has the   *)
(* rotation the inference computes from its nodes and dimensions, one of   *)
(* 0, 90, 180 and 270.  A Mobalytics board has the angle of its wrapper's  *)
(* transform as it is written there, 0 when the transform has no angle;    *)
(* the angle may be negative or no multiple of 90.                         *)
(***************************************************************************)
QuarterTurns == {0, 90, 180, 270}

angleOf(wrapper) == IF wrapper.style.rotate = <<>> THEN 0 ELSE wrapper.style.rotate[1]

C17_QuarterTurns ==
  parsed => \A b \in 1..Len(boards) : boards[b].rotation \in QuarterTurns

C17_RotationAsRead ==
  parsed =>
    \A b \in 1..Len(boards) :
      IF site = "maxroll"
      THEN /\ boards[b].rotation \in QuarterTurns
           /\ boards[b].rotation =
                Maxroll_determineBoardRotation(boards[b].nodes, boards[b].dimensions)
      ELSE boards[b].rotation = angleOf(dom.wrappers[boards[b].container])

C17_Witness ==
  /\ parsedB
  /\ Len(boards) = 1
  /\ dom.wrappers[1].style.rotate = <<(0 - 90)>>
  /\ boards[1].rotation = 0 - 90

(***************************************************************************)
(* Claim C18 (C18_GlyphLabelBackfill).  On Maxroll a socket's glyph art    *)
(* gives no glyph name, so that the board's glyph label is the only source *)
(* of one.  When the board has a non-empty label, its glyph socket (the    *)
(* first socket among its nodes) has that label as glyphName and the stat  *)
(* "Glyph: <label>", and the grid, built after the backfill, holds the     *)
(* socket with the label; every other socket has an empty glyphName.  When *)
(* the board has no label or an empty one, every socket has an empty       *)
(* glyphName and the stat "Glyph Socket".                                  *)
(***************************************************************************)
labelOf(wrapper) == IF wrapper.glyphNameEl = <<>> THEN <<>> ELSE wrapper.glyphNameEl[1]

socketsOf(board) == {i \in 1..Len(board.nodes) : board.nodes[i].isGlyph}

C18_GlyphLabelBackfill ==
  (parsed /\ site = "maxroll") =>
    \A b \in 1..Len(boards) :
      LET board == boards[b]
          label == labelOf(dom.wrappers[board.container])
          sockets == socketsOf(board)
          labelled == IF Len(label) > 0 /\ sockets # {} THEN {SetMin(sockets)} ELSE {}
      IN /\ \A i \in labelled :
              /\ board.nodes[i].glyphName = label
              /\ board.nodes[i].stat = <<"Glyph: ">> \o label
              /\ LET key == NodeKey(board.nodes[i])
                 IN SetMax(nodesAt(board, key)) = i => board.grid[key] = board.nodes[i]
         /\ \A i \in sockets \ labelled :
              /\ board.nodes[i].glyphName = <<>>
              /\ board.nodes[i].stat = <<"Glyph Socket">>

C18_Witness ==
  /\ parsed
  /\ site = "maxroll"
  /\ Len(boards) = 1
  /\ labelOf(dom.wrappers[1]) = <<"Exploit">>
  /\ Len(boards[1].nodes) = 2
  /\ ~boards[1].nodes[1].isGlyph
  /\ boards[1].nodes[2].isGlyph
  /\ boards[1].nodes[2].element.glyphEl
  /\ boards[1].nodes[2].glyphName = <<"Exploit">>
  /\ boards[1].nodes[2].stat = <<"Glyph: ", "Exploit">>
  /\ boards[1].grid[NodeKey(boards[1].nodes[2])].glyphName = <<"Exploit">>

(***************************************************************************)
(* The content script.  processBoards runs to its end once it is called:   *)
(* it sets its flag, calls the parser of the site for the list of boards   *)
(* and for their connections, returns when the list is empty, and          *)
(* otherwise makes every board accessible in the order of the list and     *)
(* marks the page as processed.  Between two calls the host page may       *)
(* render other boards.  Of the accessible container of a board the model  *)
(* keeps the board it stands for and the text of its table cells.          *)
(***************************************************************************)
hasConnection(node) == node.connectsTo \notin {Null, Undefined}

\* typeMap[type.toLowerCase()] || type, for the kinds of the samples
formatNodeType(type) ==
  CASE type = "normal" -> "Normal"
    [] type = "magic" -> "Magic"
    [] type = "rare" -> "Rare"
    [] type = "legendary" -> "Legendary"
    [] type = "gate" -> "Gate"
    [] type = "glyph" -> "Glyph"
    [] OTHER -> type

\* parts.join(' ') of buildNodeContent, as the pieces it is made of
baseText(node) ==
  LET typeDisplay == formatNodeType(node.type)
      statDisplay == node.stat
  IN IF node.isGate
     THEN IF hasConnection(node)
          THEN <<"Gate to Board ">> \o NatToStr(node.connectsTo.index) \o <<": ">>
                 \o node.connectsTo.name
          ELSE <<"Gate (no connection)">>
     ELSE IF node.isGlyph \/ node.type = "glyph"
     THEN IF Len(node.glyphName) > 0 THEN <<"Glyph: ">> \o node.glyphName
          ELSE IF Len(statDisplay) > 0 /\ statDisplay[1] = "Glyph: " THEN statDisplay
          ELSE <<"Glyph Socket">>
     ELSE IF Len(statDisplay) > 0 THEN <<typeDisplay, " ">> \o statDisplay
     ELSE <<typeDisplay>>

buildNodeContent_labelUnmarked(node) ==
  [text |-> IF node.isSelected THEN baseText(node) \o <<" *">> ELSE baseText(node),
   ariaLabel |-> baseText(node)]

buildNodeContent(node) ==
  [text |-> IF node.isSelected THEN baseText(node) \o <<" *">> ELSE baseText(node),
   ariaLabel |-> IF node.isSelected THEN baseText(node) \o <<", selected">>
                 ELSE baseText(node)]

\* the accessible container makeAccessible builds for a board
accessibleContainer(board) ==
  [board |-> board.container,
   index |-> board.index,
   table |-> [cell \in displayCells(board) |->
                LET node == generateTable(board)[cell]
                IN IF node = Null THEN <<>> ELSE buildNodeContent(node).text],
   labels |-> [cell \in displayCells(board) |->
                 LET node == generateTable(board)[cell]
                 IN IF node = Null THEN <<"Empty">> ELSE buildNodeContent(node).ariaLabel]]

PageWrappers(s) ==
  IF s = "mobalytics"
  THEN {wrapperB(styleAt(em(0), em(0), <<>>), <<<<"Start">>>>, <<<<"1", "Start">>>>,
                 <<plainElB(80, 80, TRUE)>>, <<gateElB(160, 80, TRUE)>>, <<>>),
        wrapperB(styleAt(em(168), em(0), <<>>), <<<<"Castle">>>>, <<<<"2", "Castle / Exploit">>>>,
                 <<>>, <<gateElB(0, 80, TRUE)>>, <<>>),
        wrapperB(styleAt(em(0), em(168), <<90>>), <<<<"Tower">>>>, <<>>,
                 <<plainElB(80, 80, FALSE)>>, <<gateElB(0, 80, FALSE)>>, <<>>),
        wrapperB(styleAt(em(168), em(0), <<>>), <<<<"Bare">>>>, <<<<"8", "Bare">>>>,
                 <<>>, <<>>, <<>>),
        wrapperB(styleAt(em(0), em(0), <<>>), <<<<"Unplaced">>>>, <<>>,
                 <<[style |-> styleAt(px(80), px(80), <<>>),
                    span |-> spanOf("normal", "str", FALSE)]>>, <<>>, <<>>)}
  ELSE {boardA(styleAt(em(0), em(0), <<>>), <<<<"Start">>>>, <<<<"1">>>>, <<>>,
               <<elA(em(1), em(2), {"d4t-node", "d4t-r1", "d4t-active"}, {}, "-53em", FALSE),
                 elA(em(1), em(0), {"d4t-node", "d4t-gate", "d4t-active"}, {"n"}, "none", FALSE)>>),
        boardA(styleAt(em(0), em(-21), <<>>), <<<<"Castle">>>>, <<<<"2">>>>, <<<<"Exploit">>>>,
               <<elA(em(1), em(1), {"d4t-node", "d4t-socket", "d4t-active"}, {}, "none", TRUE),
                 elA(em(1), em(2), {"d4t-node", "d4t-gate"}, {"s"}, "none", FALSE)>>),
        boardA(styleAt(em(21), em(21), <<>>), <<<<"Bare">>>>, <<<<"4">>>>, <<>>, <<>>),
        boardA(styleAt(em(0), em(21), <<>>), <<<<"Unplaced">>>>, <<>>, <<>>,
               <<elA(Null, em(1), {"d4t-node", "d4t-r1"}, {}, "-53em", FALSE)>>)}

Pages(s) ==
  {[hasContainer |-> FALSE, wrappers |-> <<>>]} \cup
  {[hasContainer |-> TRUE, wrappers |-> w] : w \in SeqsUpTo(PageWrappers(s), MaxPageBoards)}

InitProcess ==
  /\ site \in Sites
  /\ dom \in Pages(site)
  /\ boards = <<>>
  /\ pc = "idle"
  /\ processing = FALSE
  /\ processed = FALSE
  /\ accessible = <<>>
  /\ hidden = {}
  /\ ScriptIdle
  /\ ProjectorIdle
  /\ EdgesIdle
  /\ PositionIdle

\* the page renders its boards, or others, while no call is running
PageRenders ==
  /\ pc \in {"idle", "returned"}
  /\ accessible = <<>>
  /\ \E page \in Pages(site) : page # dom /\ dom' = page
  /\ UNCHANGED <<site, boards, pc, pjVars, edVars, psVars, daVars, scVars>>

\* processBoards up to the call of the parser; it returns at once while a
\* call is running or when the page holds an accessible board already
ProcessBoards ==
  /\ pc \in {"idle", "returned"}
  /\ ~processing
  /\ accessible = <<>>
  /\ processing' = TRUE
  /\ pc' = "page"
  /\ made' = 0
  /\ UNCHANGED <<site, dom, boards, processed, accessible, hidden, pjVars, edVars, psVars,
                 attempts, polling, scheduled, host, display, originalBoards, nav>>

NoBoards_flagLeftSet ==
  /\ pc = "connected"
  /\ Len(boards) = 0
  /\ pc' = "returned"
  /\ UNCHANGED <<site, dom, boards, pjVars, edVars, psVars, daVars, scVars>>

NoBoards ==
  /\ pc = "connected"
  /\ Len(boards) = 0
  /\ processing' = FALSE
  /\ pc' = "returned"
  /\ UNCHANGED <<site, dom, boards, processed, accessible, hidden, pjVars, edVars, psVars,
                 scVars>>

readyToRender_afterParse == pc \in {"parsed", "connected"}

\* boards.forEach(makeAccessible) follows parser.calculateGateConnections(boards)
readyToRender == pc = "connected"

\* the element of a board, and the widget container around the boards
boardEl(container) == [kind |-> "board", of |-> container]

widgetContainer == [kind |-> "widget", of |-> 0]

\* board.container.closest('.m-jnyrm6, .m-oy69id, .m-1wir8p5') || board.container
insertionPoint(board) ==
  IF host.widget THEN widgetContainer ELSE boardEl(board.container)

\* element.style.display
styleDisplay(element) ==
  IF element \in DOMAIN display THEN display[element] ELSE host.display

\* element.style.display = value
setDisplay(styles, element, value) ==
  [e \in DOMAIN styles \cup {element} |-> IF e = element THEN value ELSE styles[e]]

MakeAccessible ==
  /\ readyToRender
  /\ made < Len(boards)
  /\ made' = made + 1
  /\ LET board == boards[made + 1]
     IN /\ originalBoards' = Append(originalBoards,
                                    [container |-> boardEl(board.container),
                                     display |-> styleDisplay(boardEl(board.container))])
        /\ accessible' = Append(accessible, accessibleContainer(board))
        /\ display' = setDisplay(display, insertionPoint(board), "none")
        /\ hidden' = hidden \cup {insertionPoint(board)}
  /\ UNCHANGED <<site, dom, boards, pc, processing, processed, pjVars, edVars, psVars,
                 attempts, polling, scheduled, host, nav>>

\* the links of addNavigationLandmarks: one after every heading but the last
\* of the page, and the list of the navigation region
navigationLandmarks(boardList, containers) ==
  IF Len(boardList) <= 1 THEN Null
  ELSE [skipLinks |-> [i \in 1..(Len(boardList) - 1) |->
                        [after |-> containers[i].index, href |-> i + 1]],
        navLinks |-> [i \in 1..Len(boardList) |->
                       [href |-> i,
                        text |-> <<"Board ">> \o NatToStr(i) \o <<": ">>
                                   \o boardList[i].name]]]

ProcessingComplete ==
  /\ pc = "connected"
  /\ Len(boards) > 0
  /\ made = Len(boards)
  /\ nav' = navigationLandmarks(boards, accessible)
  /\ processed' = TRUE
  /\ processing' = FALSE
  /\ pc' = "returned"
  /\ UNCHANGED <<site, dom, boards, accessible, hidden, pjVars, edVars, psVars,
                 attempts, polling, scheduled, host, display, originalBoards, made>>

NextProcess ==
  \/ PageRenders
  \/ ProcessBoards
  \/ NextA
  \/ NextB
  \/ NoBoards
  \/ MakeAccessible
  \/ ProcessingComplete

SpecProcess == InitProcess /\ [][NextProcess]_vars

(***************************************************************************)
(* Claim C19 (C19_ConnectBeforeRender).  In every run of processBoards the *)
(* connections of the whole list are resolved before a board is rendered:  *)
(* a step that inserts an accessible container is taken after              *)
(* calculateGateConnections has returned, on Mobalytics with connectsTo    *)
(* assigned on every gate of every board of the list, and the gate cells   *)
(* of the inserted table show that connection.                             *)
(***************************************************************************)
gatesOf(board) ==
  {board.nodes[i] : i \in {n \in 1..Len(board.nodes) : board.nodes[n].isGate}} \cup
  {board.grid[k] : k \in {key \in DOMAIN board.grid : board.grid[key].isGate}}

resolved(boardList) ==
  site = "mobalytics" =>
    \A b \in 1..Len(boardList) :
      \A gate \in gatesOf(boardList[b]) :
        gate.connectsTo = connectionTo(parseAllBoards(dom), boardList[b], gate)

gateTexts(board) ==
  {IF gate.connectsTo \in {Null, Undefined} THEN <<"Gate (no connection)">>
   ELSE <<"Gate to Board ">> \o NatToStr(gate.connectsTo.index) \o <<": ">>
          \o gate.connectsTo.name :
     gate \in {g \in gatesOf(board) : ~g.isSelected}} \cup
  {IF gate.connectsTo \in {Null, Undefined} THEN <<"Gate (no connection)", " *">>
   ELSE <<"Gate to Board ">> \o NatToStr(gate.connectsTo.index) \o <<": ">>
          \o gate.connectsTo.name \o <<" *">> :
     gate \in {g \in gatesOf(board) : g.isSelected}}

isGateText(text) == Len(text) > 0 /\ text[1] \in {"Gate to Board ", "Gate (no connection)"}

C19_ConnectBeforeRender ==
  [][accessible' # accessible =>
       /\ pc = "connected"
       /\ resolved(boards)
       /\ Len(accessible') = Len(accessible) + 1
       /\ LET board == boards[Len(accessible')]
              table == accessible'[Len(accessible')].table
          IN \A cell \in DOMAIN table :
               isGateText(table[cell]) => table[cell] \in gateTexts(board)]_vars

C19_Witness ==
  /\ site = "mobalytics"
  /\ pc = "returned"
  /\ processed
  /\ Len(accessible) = 2
  /\ \E cell \in DOMAIN accessible[1].table :
       accessible[1].table[cell] = <<"Gate to Board ", "2", ": ", "Castle / Exploit", " *">>
  /\ \E cell \in DOMAIN accessible[2].table :
       accessible[2].table[cell] = <<"Gate to Board ", "1", ": ", "Start", " *">>

(***************************************************************************)
(* Claim C20 (C20_EmptyResult).  When the page has no container, or no     *)
(* board of it has a node, parseAllBoards returns the empty list; a board  *)
(* without nodes is in no list it returns.  A run of processBoards on the  *)
(* empty list inserts no accessible container, hides no element of the     *)
(* page, leaves processed false and clears the processing flag, so that    *)
(* processBoards can be called again.                                      *)
(***************************************************************************)
noNodes(page) ==
  \/ ~page.hasContainer
  \/ \A w \in 1..Len(page.wrappers) :
       SelectSeq(elementsOf(page.wrappers[w]), hasPosition) = <<>>

C20_EmptyResult ==
  /\ parsed =>
       /\ \A b \in 1..Len(boards) : Len(boards[b].nodes) > 0
       /\ noNodes(dom) => boards = <<>>
  /\ (pc \in {"parsed", "connected", "returned"} /\ boards = <<>>) =>
       /\ accessible = <<>>
       /\ hidden = {}
       /\ ~processed
  /\ (pc = "returned" /\ boards = <<>>) =>
       /\ ~processing
       /\ ENABLED ProcessBoards

C20_Witness ==
  /\ pc = "returned"
  /\ dom.hasContainer
  /\ Len(dom.wrappers) = 2
  /\ noNodes(dom)
  /\ boards = <<>>
  /\ ~processing
  /\ ~processed
  /\ accessible = <<>>

(***************************************************************************)
(* Claim C22 (C22_SelectionAndGateText).  For every node shown in a table  *)
(* cell, the text of the cell ends with " *" and its aria-label with       *)
(* ", selected" exactly when the node is selected; a gate with a           *)
(* connection reads "Gate to Board <index>: <name>", a gate without one    *)
(* "Gate (no connection)".                                                 *)
(***************************************************************************)
last(text) == IF Len(text) = 0 THEN "" ELSE text[Len(text)]

unmarked(text) ==
  IF last(text) \in {" *", ", selected"} THEN SubSeq(text, 1, Len(text) - 1) ELSE text

C22_SelectionAndGateText ==
  \A a \in 1..Len(accessible) :
    \A cell \in DOMAIN accessible[a].table :
      LET node == generateTable(boards[a])[cell]
          text == accessible[a].table[cell]
          label == accessible[a].labels[cell]
      IN node # Null =>
           /\ last(text) = " *" <=> node.isSelected
           /\ last(label) = ", selected" <=> node.isSelected
           /\ unmarked(text) = unmarked(label)
           /\ (node.isGate /\ node.connectsTo \notin {Null, Undefined}) =>
                unmarked(text) = <<"Gate to Board ">> \o NatToStr(node.connectsTo.index)
                                   \o <<": ">> \o node.connectsTo.name
           /\ (node.isGate /\ node.connectsTo \in {Null, Undefined}) =>
                unmarked(text) = <<"Gate (no connection)">>

C22_Witness ==
  /\ site = "mobalytics"
  /\ Len(accessible) = 2
  /\ \E cell \in DOMAIN accessible[1].table :
       /\ accessible[1].table[cell] = <<"Gate to Board ", "2", ": ", "Start">>
       /\ accessible[1].labels[cell] = <<"Gate to Board ", "2", ": ", "Start">>
  /\ \E cell \in DOMAIN accessible[2].table :
       /\ accessible[2].table[cell] = <<"Gate (no connection)", " *">>
       /\ accessible[2].labels[cell] = <<"Gate (no connection)", ", selected">>

(***************************************************************************)
(* Claim C23 (C23_ScanOneToOne).  For the rotations 0, 90, 180 and 270 and *)
(* a board with at least one node, the row-major scan of generateTable     *)
(* maps its display cells one-to-one onto the cells of the bounding box:   *)
(* no display cell has its source outside the box, every cell of the box   *)
(* is the source of exactly one display cell, and every occupied           *)
(* GridPosition is shown, with its node, in exactly one cell of the table. *)
(***************************************************************************)
tableDone == pjPc \in {"table", "reprojected"}

boundingBox(d) == (d.minRow..d.maxRow) \X (d.minCol..d.maxCol)

sourceCell(board, cell) == <<sourceOf(board, cell).row, sourceOf(board, cell).col>>

C23_ScanOneToOne ==
  (tableDone /\ pjBoard.rotation \in {0, 90, 180, 270} /\ DOMAIN pjBoard.grid # {}) =>
    LET box == boundingBox(pjBoard.dimensions)
        shownAt(p) == {cell \in DOMAIN pjTable1 : sourceCell(pjBoard, cell) = p}
    IN /\ \A cell \in DOMAIN pjTable1 : sourceCell(pjBoard, cell) \in box
       /\ \A p \in box : Cardinality(shownAt(p)) = 1
       /\ \A k \in DOMAIN pjBoard.grid :
            LET p == <<KeyPosition(k).row, KeyPosition(k).col>>
            IN /\ p \in box
               /\ \A cell \in shownAt(p) : pjTable1[cell] = pjBoard.grid[k]
       /\ Cardinality({cell \in DOMAIN pjTable1 : pjTable1[cell] # Null}) =
            Cardinality(DOMAIN pjBoard.grid)

\* a column of three cells, the middle one empty, laid out as a row at 90 degrees
C23_Witness ==
  /\ pjPc = "table"
  /\ pjBoard.rotation = 90
  /\ DOMAIN pjTable1 = {0} \X {0, 1, 2}
  /\ pjTable1[<<0, 0>>] # Null
  /\ pjTable1[<<0, 1>>] = Null
  /\ pjTable1[<<0, 2>>] # Null
  /\ pjTable1[<<0, 0>>].gridPosition.row = 1

(***************************************************************************)
(* Agreement specification: one Maxroll board of up to MaxNodesA elements  *)
(* is parsed, its rotation inferred, and its table generated with that     *)
(* rotation.  The elements are gates marked with one of the four edges at  *)
(* the middle of the top, the middle of the right, the bottom left corner  *)
(* and the centre of a 3 x 3 box, and plain nodes at two corners and at    *)
(* the middle of the right.                                                *)
(***************************************************************************)
AgreementElements ==
  {elA(em(p[1]), em(p[2]), {"d4t-node", "d4t-gate"}, {d}, "none", FALSE) :
     p \in {<<1, 0>>, <<2, 1>>, <<0, 2>>, <<1, 1>>}, d \in {"n", "e", "s", "w"}} \cup
  {elA(em(p[1]), em(p[2]), {"d4t-node", "d4t-r1"}, {}, "-53em", FALSE) :
     p \in {<<0, 0>>, <<2, 2>>, <<2, 1>>}}

InitAgreement ==
  /\ site = "maxroll"
  /\ \E nodeEls \in SeqsUpTo(AgreementElements, MaxNodesA) :
       dom = [hasContainer |-> TRUE,
              wrappers |-> <<boardA(styleAt(em(0), em(0), <<>>), <<<<"Start">>>>,
                                    <<<<"1">>>>, <<>>, nodeEls)>>]
  /\ boards = <<>>
  /\ ProcessStarted
  /\ ProjectorIdle
  /\ EdgesIdle
  /\ PositionIdle

\* makeAccessible hands the board to TableGenerator.generateTable
RenderBoard ==
  /\ pc = "connected"
  /\ Len(boards) > 0
  /\ pjPc = "idle"
  /\ pjBoard' = boards[1]
  /\ pjPc' = "board"
  /\ UNCHANGED <<pjCell, pjSource, pjArg, pjTable1, pjTable2, ppVars, edVars, psVars, daVars, scVars>>

NextAgreement == NextA \/ RenderBoard \/ GenerateTable

SpecAgreement == InitAgreement /\ [][NextAgreement]_vars

(***************************************************************************)
(* Claim C24.  Rotation inference and projection on Maxroll.  The rotation *)
(* of a board is inferred from its first gate g that has an edge marker d  *)
(* and lies on the boundary of the box.                                    *)
(*   As claimed (C24_GateShownOnEdge): the table generated with that       *)
(* rotation shows g on the display edge opposite to d: in the first row    *)
(* for SOUTH, the last row for NORTH, the first column for EAST and the    *)
(* last column for WEST.                                                   *)
(*   As the code behaves (C24_GateCellOnEdge): the display cell of the     *)
(* GridPosition of g is on that edge, and it shows the node the grid holds *)
(* at that position, which is g unless a later node of the collection has  *)
(* the same GridPosition.                                                  *)
(***************************************************************************)
inferring(board) ==
  {i \in 1..Len(board.nodes) :
     /\ board.nodes[i].isGate
     /\ board.nodes[i].gateEdge # "null"
     /\ Maxroll_getDataEdge(board.nodes[i].gridPosition, board.dimensions) # "null"}

onOppositeEdge(board, cell, d) ==
  CASE d = "SOUTH" -> cell[1] = 0
    [] d = "NORTH" -> cell[1] = displayRows(board) - 1
    [] d = "EAST" -> cell[2] = 0
    [] d = "WEST" -> cell[2] = displayCols(board) - 1

cellsOf(board, table, node) ==
  {cell \in DOMAIN table :
     sourceCell(board, cell) = <<node.gridPosition.row, node.gridPosition.col>>}

tableGenerated == site = "maxroll" /\ pjPc = "table" /\ inferring(pjBoard) # {}

C24_GateShownOnEdge ==
  tableGenerated =>
    LET g == pjBoard.nodes[SetMin(inferring(pjBoard))]
    IN \E cell \in DOMAIN pjTable1 :
         /\ pjTable1[cell] = g
         /\ onOppositeEdge(pjBoard, cell, g.gateEdge)

C24_GateCellOnEdge ==
  tableGenerated =>
    LET g == pjBoard.nodes[SetMin(inferring(pjBoard))]
        cells == cellsOf(pjBoard, pjTable1, g)
    IN /\ Cardinality(cells) = 1
       /\ pjBoard.rotation =
            Maxroll_calculateRotation(
              Maxroll_getDataEdge(g.gridPosition, pjBoard.dimensions), g.gateEdge)
       /\ \A cell \in cells :
            /\ onOppositeEdge(pjBoard, cell, g.gateEdge)
            /\ pjTable1[cell] = pjBoard.grid[NodeKey(g)]
            /\ nodesAt(pjBoard, NodeKey(g)) = {SetMin(inferring(pjBoard))} => pjTable1[cell] = g

\* a gate marked WEST at the middle of the top: the board is turned by 90
\* degrees and the gate is shown in the last column
C24_Witness ==
  /\ tableGenerated
  /\ pjBoard.rotation = 90
  /\ Len(pjBoard.nodes) = 3
  /\ pjBoard.nodes[2].gateEdge = "WEST"
  /\ inferring(pjBoard) = {2}
  /\ displayCols(pjBoard) = 3
  /\ displayRows(pjBoard) = 3
  /\ pjTable1[<<1, 2>>] = pjBoard.nodes[2]

(***************************************************************************)
(* Claim C29 (C29_NeverOwnBoard).  On Mobalytics, after                    *)
(* calculateGateConnections, the connectsTo of a gate is null or names a   *)
(* board of the list other than the gate's own: its index differs from the *)
(* index of the gate's board, in the node collection and in the grid.      *)
(***************************************************************************)
C29_NeverOwnBoard ==
  (site = "mobalytics" /\ pc = "connected") =>
    \A b \in 1..Len(boards) :
      \A gate \in gatesOf(boards[b]) :
        \/ gate.connectsTo = Null
        \/ /\ gate.connectsTo.index # boards[b].index
           /\ \E other \in 1..Len(boards) :
                other # b /\ boards[other].index = gate.connectsTo.index

\* a board turned by 45 degrees looks for its neighbour at its own Position:
\* its gate connects to the other board that lies there
C29_Witness ==
  /\ site = "mobalytics"
  /\ pc = "connected"
  /\ \E b \in 1..Len(boards) :
       /\ boards[b].rotation = 45
       /\ \E gate \in gatesOf(boards[b]) :
            /\ gate.connectsTo # Null
            /\ \E other \in 1..Len(boards) :
                 /\ other # b
                 /\ boards[other].index = gate.connectsTo.index
                 /\ boards[other].position = boards[b].position

(***************************************************************************)
(* Claim C30 (C30_DirectionOfFour).  On Mobalytics, for every gate of      *)
(* every board and every rotation parseRotation returns, the direction     *)
(* rotateDirection(getGateEdge(position), rotation) is one of TOP, RIGHT,  *)
(* BOTTOM and LEFT, and the Position findAdjacentBoard looks at is 168     *)
(* away from the board's own along one axis: a board the gate connects to  *)
(* lies within the tolerance of such a Position.                           *)
(*   The code does not keep this for an angle that is no multiple of 90:   *)
(* the index into the directions is then no whole number, there is no      *)
(* direction, and the board's own Position is searched.                    *)
(***************************************************************************)
facing(board, gate) == rotateDirection(getGateEdge(gate.position), board.rotation)

C30_DirectionOfFour ==
  (site = "mobalytics" /\ pc = "connected") =>
    \A b \in 1..Len(boards) :
      \A gate \in gatesOf(boards[b]) :
        /\ facing(boards[b], gate) \in {"TOP", "RIGHT", "BOTTOM", "LEFT"}
        /\ gate.connectsTo # Null =>
             \E other \in 1..Len(boards) :
               LET expected == offsetPosition(boards[b].position, facing(boards[b], gate))
               IN /\ boards[other].index = gate.connectsTo.index
                  /\ expected # boards[b].position
                  /\ Abs(boards[other].position.left - expected.left) < 10
                  /\ Abs(boards[other].position.top - expected.top) < 10

(***************************************************************************)
(* The scheduling of the content script.  waitForBoards calls              *)
(* checkForBoards and registers the mutation observer; checkForBoards      *)
(* calls itself through a timer while the page holds no board container,   *)
(* and the observer and checkForBoards call processBoards through timers.  *)
(* A callback runs to its end before the next one starts, so a timer fires *)
(* and the page changes only between two runs of processBoards.  The page  *)
(* adds a board container with one more board at a time; the parser reads  *)
(* the boards in document order.  restoreOriginal is called from outside.  *)
(***************************************************************************)
maxAttempts == 30

MaxTimers == 2

\* the page adds its first board container within MaxSettle checks of the
\* poll, or after the poll has ended
MaxSettle == 2

ScriptWrappers(s) ==
  {w \in PageWrappers(s) : w.nameEl \in {<<<<"Start">>>>, <<<<"Castle">>>>, <<<<"Bare">>>>}}

ScriptPages(s) ==
  {[hasContainer |-> FALSE, wrappers |-> <<>>]} \cup
  {[hasContainer |-> TRUE, wrappers |-> w] : w \in SeqsUpTo(ScriptWrappers(s), MaxPageBoards)}

\* waitForBoards is about to make its first call of checkForBoards
InitScript ==
  /\ site \in Sites
  /\ dom \in ScriptPages(site)
  /\ boards = <<>>
  /\ pc = "idle"
  /\ processing = FALSE
  /\ processed = FALSE
  /\ accessible = <<>>
  /\ hidden = {}
  /\ attempts = 0
  /\ polling = TRUE
  /\ scheduled = 0
  /\ host \in [widget : IF site = "mobalytics" THEN BOOLEAN ELSE {FALSE},
               display : {"", "block"}]
  /\ display = <<>>
  /\ originalBoards = <<>>
  /\ nav = Null
  /\ made = 0
  /\ ProjectorIdle
  /\ EdgesIdle
  /\ PositionIdle

\* no callback of the content script is running
betweenCallbacks == pc \in {"idle", "returned"}

checkForBoards_unbounded ==
  /\ polling
  /\ betweenCallbacks
  /\ attempts < maxAttempts + 1
  /\ attempts' = attempts + 1
  /\ IF dom.hasContainer
     THEN /\ scheduled' = scheduled + 1
          /\ polling' = FALSE
     ELSE /\ scheduled' = scheduled
          /\ polling' = TRUE
  /\ UNCHANGED <<pjVars, ppVars, edVars, psVars, daVars, host, display, originalBoards, nav,
                 made>>

checkForBoards ==
  /\ polling
  /\ betweenCallbacks
  /\ attempts' = attempts + 1
  /\ IF dom.hasContainer
     THEN /\ scheduled' = scheduled + 1
          /\ polling' = FALSE
     ELSE /\ scheduled' = scheduled
          /\ polling' = (attempts' < maxAttempts)
  /\ UNCHANGED <<pjVars, ppVars, edVars, psVars, daVars, host, display, originalBoards, nav,
                 made>>

\* the page adds a board container and the observer's callback sees it
observeForNewBoards ==
  /\ attempts > 0
  /\ betweenCallbacks
  /\ scheduled < MaxTimers
  /\ Len(dom.wrappers) <= MaxPageBoards
  /\ dom.hasContainer \/ attempts <= MaxSettle \/ ~polling
  /\ \E w \in ScriptWrappers(site) :
       dom' = [hasContainer |-> TRUE, wrappers |-> Append(dom.wrappers, w)]
  /\ scheduled' = IF ~processing THEN scheduled + 1 ELSE scheduled
  /\ UNCHANGED <<site, boards, pc, pjVars, edVars, psVars, daVars,
                 attempts, polling, host, display, originalBoards, nav, made>>

processBoards_unguarded ==
  /\ scheduled > 0
  /\ betweenCallbacks
  /\ scheduled' = scheduled - 1
  /\ IF processing
     THEN UNCHANGED <<processing, pc, made>>
     ELSE /\ processing' = TRUE
          /\ pc' = "page"
          /\ made' = 0
  /\ UNCHANGED <<site, dom, boards, processed, accessible, hidden, pjVars, edVars, psVars,
                 attempts, polling, host, display, originalBoards, nav>>

\* a timer calls processBoards, which returns at once while a call is running
\* or when the page holds an accessible board already
processBoards ==
  /\ scheduled > 0
  /\ betweenCallbacks
  /\ scheduled' = scheduled - 1
  /\ IF processing \/ accessible # <<>>
     THEN UNCHANGED <<processing, pc, made>>
     ELSE /\ processing' = TRUE
          /\ pc' = "page"
          /\ made' = 0
  /\ UNCHANGED <<site, dom, boards, processed, accessible, hidden, pjVars, edVars, psVars,
                 attempts, polling, host, display, originalBoards, nav>>

\* the display saved last for an element of originalBoards; display || '' is
\* the saved string, the empty one included
savedDisplay(element) ==
  originalBoards[SetMax({i \in 1..Len(originalBoards) :
                           originalBoards[i].container = element})].display

restoreOriginal ==
  /\ betweenCallbacks
  /\ accessible' = <<>>
  /\ nav' = Null
  /\ LET containers == {originalBoards[i].container : i \in 1..Len(originalBoards)}
     IN /\ display' = [e \in DOMAIN display \cup containers |->
                         IF e \in containers THEN savedDisplay(e) ELSE display[e]]
        /\ hidden' = hidden \ containers
  /\ originalBoards' = <<>>
  /\ processed' = FALSE
  /\ UNCHANGED <<site, dom, boards, pc, processing, pjVars, edVars, psVars,
                 attempts, polling, scheduled, host, made>>

NextScript ==
  \/ checkForBoards
  \/ observeForNewBoards
  \/ processBoards
  \/ NextA
  \/ NextB
  \/ NoBoards
  \/ MakeAccessible
  \/ ProcessingComplete
  \/ restoreOriginal

SpecScript == InitScript /\ [][NextScript]_vars

(***************************************************************************)
(* Claim C21 (C21_PollBounded).  The poll of waitForBoards is bounded:     *)
(* checkForBoards is called at most 30 times.  A check that finds no board *)
(* container sets the timer of the next check while fewer than 30 checks   *)
(* were made; the 30th such check sets no timer at all.  A check that      *)
(* finds a board container sets exactly one timer for processBoards and    *)
(* none for a check.  Once no check is due, none comes due again.          *)
(***************************************************************************)
C21_PollBounded ==
  /\ [](attempts <= maxAttempts /\ (polling => attempts < maxAttempts))
  /\ [][/\ attempts' # attempts =>
             /\ polling
             /\ attempts' = attempts + 1
             /\ dom' = dom
             /\ IF dom.hasContainer
                THEN ~polling' /\ scheduled' = scheduled + 1
                ELSE /\ scheduled' = scheduled
                     /\ polling' = (attempts' < maxAttempts)
        /\ ~polling => ~polling']_vars

C21_Witness ==
  /\ attempts = maxAttempts
  /\ ~polling
  /\ ~dom.hasContainer
  /\ scheduled = 0
  /\ accessible = <<>>

(***************************************************************************)
(* Claim C25 (C25_NeverDuplicated).  Whatever calls of processBoards the   *)
(* poll and the mutation observer schedule, the output is not duplicated:  *)
(* a call that starts while processing is set or while the page holds an   *)
(* accessible board changes nothing but the timer it used, and at every    *)
(* moment no board of the page has more than one accessible container.     *)
(* Calls of restoreOriginal in between do not change this.  A callback     *)
(* runs to its end, so no call starts while processing is set; the calls   *)
(* that return at once are those that find an accessible board.            *)
(***************************************************************************)
returnsAtOnce == processing \/ accessible # <<>>

C25_NeverDuplicated ==
  /\ [](\A i, j \in 1..Len(accessible) :
          accessible[i].board = accessible[j].board => i = j)
  /\ [][(scheduled' = scheduled - 1 /\ returnsAtOnce) =>
          UNCHANGED <<pjVars, ppVars, edVars, psVars, daVars,
                      attempts, polling, host, display, originalBoards, nav, made>>]_vars

C25_Witness ==
  /\ pc = "returned"
  /\ scheduled = 0
  /\ ~polling
  /\ Len(dom.wrappers) = 2
  /\ dom.wrappers[1].nameEl = <<<<"Start">>>>
  /\ dom.wrappers[2].nameEl = <<<<"Castle">>>>
  /\ Len(accessible) = 1
  /\ accessible[1].board = 1
  /\ processed

(***************************************************************************)
(* A timer that is set fires, and a callback that has started runs to its  *)
(* end.  The page and the callers of restoreOriginal owe nothing.          *)
(***************************************************************************)
InitReprocess ==
  /\ InitScript
  /\ Len(dom.wrappers) <= 1
  /\ host = [widget |-> FALSE, display |-> ""]

SpecReprocess ==
  /\ InitReprocess
  /\ [][NextScript]_vars
  /\ WF_vars(checkForBoards)
  /\ WF_vars(processBoards)
  /\ []<>betweenCallbacks

(***************************************************************************)
(* Claim C26 (C26_NewBoardConverted).  When the mutation observer has seen *)
(* a board container added while no call of processBoards was running, a   *)
(* call of processBoards is scheduled and the added board, when the parser *)
(* finds nodes in it, is eventually shown as an accessible table: a board  *)
(* of the page with a timer set for processBoards gets its container.      *)
(*   The code does not keep this for a board added after a conversion: the *)
(* scheduled call finds the accessible boards of that conversion and       *)
(* returns at once (C26_AddedBeforeConversion is what it keeps).           *)
(***************************************************************************)
parsedBoards == IF site = "maxroll" THEN Maxroll_parseAllBoards(dom) ELSE parseAllBoards(dom)

onPage(k) == \E b \in 1..Len(parsedBoards) : parsedBoards[b].container = k

converted(k) == \E i \in 1..Len(accessible) : accessible[i].board = k

C26_NewBoardConverted ==
  \A k \in 1..(MaxPageBoards + 1) :
    (onPage(k) /\ scheduled > 0 /\ ~converted(k)) ~> converted(k)

C26_AddedBeforeConversion ==
  \A k \in 1..(MaxPageBoards + 1) :
    (onPage(k) /\ scheduled > 0 /\ accessible = <<>>) ~> converted(k)

(***************************************************************************)
(* Claim C27 (C27_LinksReachHeadings).  Every link of the navigation list  *)
(* and every "Skip to next board" link that addNavigationLandmarks         *)
(* inserted targets the id of a heading makeAccessible created, the link   *)
(* of the list that names the i-th board targets the heading of that       *)
(* board, and the skip link after a heading targets the heading of the     *)
(* next board; the index of every board of the list parseAllBoards         *)
(* returned is its place in the list, counted from 1.                      *)
(*   The code does not keep this when a board element without nodes        *)
(* precedes a board of the list: the headings are numbered by the place of *)
(* the element on the page, the links by the place of the board in the     *)
(* list.                                                                   *)
(***************************************************************************)
headingIds == {accessible[i].index : i \in 1..Len(accessible)}

C27_LinksReachHeadings ==
  /\ pc \in {"parsed", "connected"} => \A i \in 1..Len(boards) : boards[i].index = i
  /\ nav # Null =>
       /\ \A i \in DOMAIN nav.navLinks :
            /\ nav.navLinks[i].href \in headingIds
            /\ nav.navLinks[i].href = accessible[i].index
       /\ \A i \in DOMAIN nav.skipLinks :
            /\ nav.skipLinks[i].href \in headingIds
            /\ nav.skipLinks[i].after = accessible[i].index
            /\ nav.skipLinks[i].href = accessible[i + 1].index

(***************************************************************************)
(* Claim C28 (C28_RoundTrip).  A conversion followed by restoreOriginal is *)
(* a round trip: when restoreOriginal returns, every element               *)
(* makeAccessible hid has the display it had before the conversion and no  *)
(* aria-hidden, no accessible container and no navigation region is left,  *)
(* originalBoards is empty and processed is false.                         *)
(*   The code does not keep this on a page where a widget container lies   *)
(* around the boards: makeAccessible hides the widget container and saves  *)
(* the board container, which restoreOriginal restores.                    *)
(***************************************************************************)
C28_RoundTrip ==
  [][(originalBoards # <<>> /\ originalBoards' = <<>>) =>
       /\ accessible' = <<>>
       /\ nav' = Null
       /\ ~processed'
       /\ hidden' = {}
       /\ \A element \in hidden :
            (IF element \in DOMAIN display' THEN display'[element] ELSE host.display)
              = host.display]_vars

=============================================================================
